---- MODULE Spec2Model ----
(***************************************************************************)
(* Brownie: catalog resolution, schema validation and canvas block         *)
(* targeting.  The module models                                           *)
(*   - ui/schema.rs   validate_schema and its recursive descent,           *)
(*   - ui/runtime.rs  UiRuntime::load_schema_value and form-state seeding, *)
(*   - ui/catalog.rs  CatalogManager::reload / resolve,                    *)
(*   - app.rs         block target resolution and the canvas transitions.  *)
(* Optional values (Rust Option<T>) are sequences: None is << >> and       *)
(* Some(x) is << x >>.                                                     *)
(***************************************************************************)
EXTENDS Integers, Sequences, FiniteSets, TLC

VARIABLES
    \* ---- schema validation (ui/schema.rs) ----
    schema,              \* the UiSchema handed to validate_schema
    validation,          \* the Result of the last validate_schema call
    \* ---- catalog (ui/catalog.rs) ----
    providers,           \* per provider: its source and the documents it loads
    templates,           \* CatalogManager.templates, the index
    load_diagnostics,    \* CatalogManager.load_diagnostics
    org_enabled,         \* CatalogManager.org_enabled
    resolution,          \* the ResolutionResult of the last resolve call
    mutation,            \* the last upsert_template or delete_template call
    \* ---- canvas (app.rs) ----
    canvas_blocks,       \* BrownieApp.canvas_blocks
    active_block_id,     \* BrownieApp.active_block_id
    block_nonce,         \* BrownieApp.block_nonce
    canvas_event_log,    \* entries pushed to canvas_event_log by the last handler
    selected_template,   \* BrownieApp.selected_template
    active_intent,       \* BrownieApp.active_intent
    current_session,     \* BrownieApp.current_session: its canvas_workspace
    clock,               \* the value SystemTime::now() last returned, in ms
    target_resolution,   \* the last BlockTargetResolution computed on request
    allocated_ids,       \* history: the block ids the session has handed out
    \* ---- assistant turn (app.rs, copilot/mod.rs) ----
    pending_canvas_renders,  \* BrownieApp.pending_canvas_renders
    awaiting_assistant_turn, \* BrownieApp.awaiting_assistant_turn
    is_streaming,            \* BrownieApp.is_streaming
    in_progress_assistant    \* BrownieApp.in_progress_assistant

vars == << schema, validation, providers, templates, load_diagnostics,
           org_enabled, resolution, mutation,
           canvas_blocks, active_block_id, block_nonce, canvas_event_log,
           selected_template, active_intent, current_session,
           clock, target_resolution, allocated_ids,
           pending_canvas_renders, awaiting_assistant_turn, is_streaming,
           in_progress_assistant >>

schemaVars == << schema, validation >>
turnVars == << pending_canvas_renders, awaiting_assistant_turn, is_streaming,
              in_progress_assistant >>
catalogVars == << providers, templates, load_diagnostics, org_enabled, resolution,
                 mutation >>
canvasVars == << canvas_blocks, active_block_id, block_nonce, canvas_event_log,
                 selected_template, active_intent, current_session,
                 clock, target_resolution, allocated_ids >>

None == << >>
Some(x) == << x >>
IsSome(o) == o # << >>
Unwrap(o) == o[1]

(***************************************************************************)
(* ui/schema.rs                                                            *)
(***************************************************************************)
MAX_COMPONENTS == 64
MAX_DEPTH == 4

\* ComponentKind::deserialize: the five known tags; any other string is
\* ComponentKind::Unknown(raw).
KnownComponentKinds == { "markdown", "form", "code", "diff", "button" }
KnownFieldKinds == { "text", "number", "select", "checkbox" }

\* An is_actionable that forgets the Form arm.
is_actionable_buttons_only(kind) == kind = "button"

\* ComponentKind::is_actionable (schema.rs 32-34).
is_actionable(kind) == kind \in { "form", "button" }

\* ComponentRegistry::new and its SchemaRegistry impl.
allowed_components == { "markdown", "form", "code", "diff", "button" }
allowed_field_kinds == { "text", "number", "select", "checkbox" }
supports_component(kind) == kind \in allowed_components
supports_field_kind(kind) == kind \in allowed_field_kinds

\* serde_json::Value, as far as form defaults read it: a tagged pair.
JsonNull == << "null" >>
JsonString(s) == << "string", s >>
JsonNumber(n) == << "number", n >>
JsonBool(b) == << "bool", b >>

\* A reading of a string member that never takes the value of the document.
as_string_or_default_ignoring(value, default) == default

as_string_or_default(value, default) ==
    IF value[1] = "string" THEN value[2] ELSE default
as_f64_or_default(value, default) ==
    IF value[1] = "number" THEN value[2] ELSE default
as_bool_or_default(value, default) ==
    IF value[1] = "bool" THEN value[2] ELSE default

field_key(form_id, field_id) == form_id \o ":" \o field_id

\* The BTreeMap collected from schema.outputs: for a component id that occurs
\* several times the later entry replaces the earlier one.
RECURSIVE output_map_of(_)
output_map_of(outputs) ==
    IF outputs = << >> THEN << >>
    ELSE LET n == Len(outputs)
             init == output_map_of(SubSeq(outputs, 1, n - 1))
             last == outputs[n]
             kept == SelectSeq(init, LAMBDA e : e.component_id # last.component_id)
         IN  Append(kept, last)

output_map_get(output_map, id) ==
    LET hits == SelectSeq(output_map, LAMBDA e : e.component_id = id)
    IN  IF hits = << >> THEN None ELSE Some(hits[1].event_id)

Ok(value) == [ok |-> TRUE, value |-> value]
Err(error) == [ok |-> FALSE, error |-> error]

\* validate_form_fields: the loop over raw_fields, first error wins.
validate_form_field(form_id, field) ==
    IF field.kind \notin KnownFieldKinds \/ ~supports_field_kind(field.kind)
    THEN Err([type |-> "UnsupportedFieldType", form_id |-> form_id,
              field_id |-> field.id, kind |-> field.kind])
    ELSE CASE field.kind = "text" ->
                Ok([kind |-> "text", id |-> field.id, label |-> field.label,
                    default |-> as_string_or_default(field.default, "")])
           [] field.kind = "number" ->
                Ok([kind |-> "number", id |-> field.id, label |-> field.label,
                    default |-> as_f64_or_default(field.default, 0)])
           [] field.kind = "select" ->
                Ok([kind |-> "select", id |-> field.id, label |-> field.label,
                    options |-> field.options,
                    default |-> as_string_or_default(field.default,
                                 IF field.options = << >> THEN ""
                                 ELSE field.options[1])])
           [] field.kind = "checkbox" ->
                Ok([kind |-> "checkbox", id |-> field.id, label |-> field.label,
                    default |-> as_bool_or_default(field.default, FALSE)])

\* A loop over raw_fields that leaves out the fields of a kind it does not
\* support.
RECURSIVE validate_form_fields_skipping(_, _)
validate_form_fields_skipping(form_id, raw_fields) ==
    IF raw_fields = << >> THEN Ok(<< >>)
    ELSE LET first == validate_form_field(form_id, Head(raw_fields))
             rest == validate_form_fields_skipping(form_id, Tail(raw_fields))
         IN  IF ~rest.ok \/ ~first.ok THEN rest
             ELSE Ok(<< first.value >> \o rest.value)

RECURSIVE validate_form_fields(_, _)
validate_form_fields(form_id, raw_fields) ==
    IF raw_fields = << >> THEN Ok(<< >>)
    ELSE LET first == validate_form_field(form_id, Head(raw_fields))
         IN  IF ~first.ok THEN first
             ELSE LET rest == validate_form_fields(form_id, Tail(raw_fields))
                  IN  IF ~rest.ok THEN rest
                      ELSE Ok(<< first.value >> \o rest.value)

\* The match on raw.kind that builds the ValidatedComponent once the children
\* are validated (schema.rs 500-564).
build_component(raw, children, output_map) ==
    CASE raw.kind = "markdown" ->
            IF raw.text = None
            THEN Err([type |-> "MissingRequiredField", component_id |-> raw.id,
                      field |-> "text"])
            ELSE Ok([kind |-> "markdown", id |-> raw.id, text |-> Unwrap(raw.text),
                     children |-> children])
      [] raw.kind = "form" ->
            LET fields == validate_form_fields(raw.id, raw.fields)
            IN  IF ~fields.ok THEN fields
                ELSE Ok([kind |-> "form", id |-> raw.id, fields |-> fields.value,
                         children |-> children])
      [] raw.kind = "code" ->
            IF raw.code = None
            THEN Err([type |-> "MissingRequiredField", component_id |-> raw.id,
                      field |-> "code"])
            ELSE Ok([kind |-> "code", id |-> raw.id, code |-> Unwrap(raw.code),
                     children |-> children])
      [] raw.kind = "diff" ->
            Ok([kind |-> "diff", id |-> raw.id, children |-> children])
      [] raw.kind = "button" ->
            LET output_event_id == output_map_get(output_map, raw.id)
            IN  IF output_event_id = None
                THEN Err([type |-> "MissingButtonOutputContract",
                          button_id |-> raw.id])
                ELSE IF raw.label = None
                THEN Err([type |-> "MissingRequiredField",
                          component_id |-> raw.id, field |-> "label"])
                ELSE Ok([kind |-> "button", id |-> raw.id,
                         label |-> Unwrap(raw.label),
                         output_event_id |-> Unwrap(output_event_id),
                         children |-> children])
      [] OTHER ->
            Err([type |-> "UnknownComponent", component_id |-> raw.id,
                 kind |-> raw.kind])

\* A component-count check that lets one component too many through.
count_exceeded_off_by_one(component_counter) ==
    component_counter > MAX_COMPONENTS + 1

\* The component-count check (schema.rs 461-467) on the counter after its
\* increment.
count_exceeded(component_counter) == component_counter > MAX_COMPONENTS

\* A nesting check that lets one level too many through.
depth_exceeded_off_by_one(depth) == depth > MAX_DEPTH + 1

\* The nesting check (schema.rs 469-475).
depth_exceeded(depth) == depth > MAX_DEPTH

\* The duplicate check (schema.rs 485-489): BTreeSet::insert returns false for
\* an id that is already in the set.
duplicate_actionable(raw, actionable_ids) ==
    is_actionable(raw.kind) /\ raw.id \in actionable_ids

\* validate_components (schema.rs 450-570).  validate_component is one
\* iteration of the for loop; validate_range runs the iterations lo..hi in
\* order, the first error ending the loop, split in halves so that the
\* evaluation depth stays logarithmic in the number of components.  The
\* counter and the set of actionable ids are threaded through the whole
\* recursion; a successful result carries them as the call left them.
RECURSIVE validate_range(_, _, _, _, _, _, _)
validate_component(raw, output_map, depth, component_counter, actionable_ids) ==
    LET counted == component_counter + 1
    IN
    IF count_exceeded(counted)
    THEN Err([type |-> "TooManyComponents", max |-> MAX_COMPONENTS,
              actual |-> counted])
    ELSE IF depth_exceeded(depth)
    THEN Err([type |-> "NestingTooDeep", max |-> MAX_DEPTH, actual |-> depth,
              component_id |-> raw.id])
    ELSE IF raw.kind \notin KnownComponentKinds \/ ~supports_component(raw.kind)
    THEN Err([type |-> "UnknownComponent", component_id |-> raw.id,
              kind |-> raw.kind])
    ELSE IF duplicate_actionable(raw, actionable_ids)
    THEN Err([type |-> "DuplicateActionableId", component_id |-> raw.id])
    ELSE
    LET seen == IF is_actionable(raw.kind)
                THEN actionable_ids \cup { raw.id } ELSE actionable_ids
        children == validate_range(raw.children, 1, Len(raw.children),
                                   output_map, depth + 1, counted, seen)
    IN
    IF ~children.ok THEN children
    ELSE
    LET component == build_component(raw, children.value, output_map)
    IN
    IF ~component.ok THEN component
    ELSE [ok |-> TRUE, value |-> << component.value >>,
          component_counter |-> children.component_counter,
          actionable_ids |-> children.actionable_ids]

validate_range(raw_components, lo, hi, output_map, depth, component_counter, actionable_ids) ==
    IF lo > hi
    THEN [ok |-> TRUE, value |-> << >>, component_counter |-> component_counter,
          actionable_ids |-> actionable_ids]
    ELSE IF lo = hi
    THEN validate_component(raw_components[lo], output_map, depth,
                            component_counter, actionable_ids)
    ELSE
    LET mid == (lo + hi) \div 2
        left == validate_range(raw_components, lo, mid, output_map, depth,
                               component_counter, actionable_ids)
    IN
    IF ~left.ok THEN left
    ELSE
    LET right == validate_range(raw_components, mid + 1, hi, output_map, depth,
                                left.component_counter, left.actionable_ids)
    IN
    IF ~right.ok THEN right
    ELSE [ok |-> TRUE, value |-> left.value \o right.value,
          component_counter |-> right.component_counter,
          actionable_ids |-> right.actionable_ids]

validate_components_first_only(raw_components, output_map, depth, component_counter, actionable_ids) ==
    validate_range(raw_components, 1, IF raw_components = << >> THEN 0 ELSE 1,
                   output_map, depth, component_counter, actionable_ids)

validate_components(raw_components, output_map, depth, component_counter, actionable_ids) ==
    validate_range(raw_components, 1, Len(raw_components), output_map, depth,
                   component_counter, actionable_ids)

validate_schema(s) ==
    LET components == validate_components(s.components, output_map_of(s.outputs),
                                          1, 0, {})
    IN  IF ~components.ok THEN Err(components.error)
        ELSE Ok([schema_version |-> s.schema_version,
                 components |-> components.value])


(***************************************************************************)
(* Schema documents the validator is run on.                               *)
(***************************************************************************)
MaxSmallNodes == 2      \* components of an enumerated forest
MaxShapeLevels == 5     \* levels of a regular tree
MaxShapeTotal == 66     \* components of a regular tree

ComponentIds == { "a", "b" }

TextField == [id |-> "name", label |-> "Name", kind |-> "text",
              options |-> << >>, default |-> JsonNull]

\* A RawComponent; the serde defaults fill the members a document omits.
RawComponent(kind, id, text, label, fields, children) ==
    [id |-> id, kind |-> kind, text |-> text, label |-> label, code |-> None,
     fields |-> fields, children |-> children]

\* Components without id and children: a markdown with and without its
\* text, a diff, a form with one text field, a button, an unknown kind.
ComponentChoices ==
    { [kind |-> "markdown", text |-> Some("hello"), label |-> None, fields |-> << >>],
      [kind |-> "markdown", text |-> None, label |-> None, fields |-> << >>],
      [kind |-> "diff", text |-> None, label |-> None, fields |-> << >>],
      [kind |-> "form", text |-> None, label |-> None, fields |-> << TextField >>],
      [kind |-> "button", text |-> None, label |-> Some("Go"), fields |-> << >>],
      [kind |-> "widget", text |-> None, label |-> None, fields |-> << >>] }

Component(choice, id, children) ==
    RawComponent(choice.kind, id, choice.text, choice.label, choice.fields, children)

\* The ids a component is given: both for the kinds whose id matters to
\* validation and for a valid markdown, one for the others.
IdsFor(choice) ==
    IF choice.kind \in { "form", "button" } \/ choice.text # None
    THEN ComponentIds ELSE { "a" }

Markdown(id, children) ==
    RawComponent("markdown", id, Some("hello"), None, << >>, children)

\* All forests of exactly k components.
RECURSIVE ForestsOfSize(_)
ForestsOfSize(k) ==
    IF k = 0 THEN { << >> }
    ELSE UNION { { << Component(c.choice, c.id, ch) >> \o rest :
                     c \in UNION { { [choice |-> x, id |-> i] : i \in IdsFor(x) } :
                                    x \in ComponentChoices },
                     ch \in ForestsOfSize(j - 1), rest \in ForestsOfSize(k - j) } :
                 j \in 1..k }

SmallForests == UNION { ForestsOfSize(k) : k \in 0..MaxSmallNodes }

\* A forest wrapped in d levels of markdown components.
RECURSIVE Nest(_, _)
Nest(forest, d) ==
    IF d = 0 THEN forest ELSE << Markdown("w", Nest(forest, d - 1)) >>

WrapDepths == { 0, 3, 4 }

\* The regular tree of markdown components in which every component of level
\* i has widths[i + 1] children.
RECURSIVE Regular(_)
Regular(widths) ==
    IF widths = << >> THEN << >>
    ELSE [i \in 1..Head(widths) |-> Markdown("m", Regular(Tail(widths)))]

RECURSIVE ShapeTotal(_)
ShapeTotal(widths) ==
    IF widths = << >> THEN 0 ELSE Head(widths) * (1 + ShapeTotal(Tail(widths)))

WidthChoices == { 1, 2, 4 } \cup { 15, 16, 31, 32 } \cup (MaxShapeTotal - 6)..(MaxShapeTotal - 1)

\* The width sequences of at most `levels` levels and at most `budget`
\* components.
RECURSIVE Shapes(_, _)
Shapes(levels, budget) ==
    { << >> } \cup
    ( IF levels = 0 THEN { }
      ELSE UNION { { << w >> \o rest :
                       rest \in { r \in Shapes(levels - 1, (budget \div w) - 1) :
                                    w * (1 + ShapeTotal(r)) <= budget } } :
                   w \in { x \in WidthChoices : x <= budget } } )

\* The regular trees around the component budget, and the chains.
LargeShapes ==
    { w \in Shapes(MaxShapeLevels, MaxShapeTotal) :
        \/ ShapeTotal(w) >= MaxShapeTotal - 3
        \/ w # << >> /\ \A i \in DOMAIN w : w[i] = 1 }

OutputChoices ==
    { << >>,
      << [component_id |-> "a", event_id |-> "e1"],
         [component_id |-> "b", event_id |-> "e2"] >>,
      << [component_id |-> "a", event_id |-> "e1"],
         [component_id |-> "a", event_id |-> "e2"] >> }

UiSchema(outputs, components) ==
    [schema_version |-> 1, outputs |-> outputs, components |-> components]

SchemaInputs ==
    { UiSchema(o, Nest(f, d)) :
        o \in OutputChoices, f \in SmallForests, d \in WrapDepths }
    \cup
    { UiSchema(o, Regular(w) \o f) :
        o \in { << >>, << [component_id |-> "a", event_id |-> "e1"] >> },
        w \in LargeShapes, f \in ForestsOfSize(0) \cup ForestsOfSize(1) }


(***************************************************************************)
(* Specification SchemaSpec: validate_schema applied to a schema document. *)
(***************************************************************************)
CatalogIdle ==
    /\ providers = << >>
    /\ templates = << >>
    /\ load_diagnostics = << >>
    /\ org_enabled = FALSE
    /\ resolution = None
    /\ mutation = None

CanvasIdle ==
    /\ canvas_blocks = << >>
    /\ active_block_id = None
    /\ block_nonce = 0
    /\ canvas_event_log = << >>
    /\ selected_template = None
    /\ active_intent = None
    /\ current_session = None
    /\ clock = 0
    /\ target_resolution = None
    /\ allocated_ids = { }

\* BrownieApp::new: no turn, nothing deferred.
TurnIdle ==
    /\ pending_canvas_renders = << >>
    /\ awaiting_assistant_turn = FALSE
    /\ is_streaming = FALSE
    /\ in_progress_assistant = ""

SchemaIdle ==
    /\ schema = UiSchema(<< >>, << >>)
    /\ validation = None

SchemaInit ==
    /\ schema \in SchemaInputs
    /\ validation = None
    /\ CatalogIdle
    /\ CanvasIdle
    /\ TurnIdle

Validate ==
    /\ validation' = Some(validate_schema(schema))
    /\ UNCHANGED << schema, catalogVars, canvasVars, turnVars >>

SchemaNext == Validate

SchemaSpec == SchemaInit /\ [][SchemaNext]_vars

(***************************************************************************)
(* What a schema document is, read off the document itself.                *)
(***************************************************************************)
\* The components of a tree in depth-first, left-to-right order, each with
\* its nesting depth.
RECURSIVE Preorder(_, _)
RECURSIVE PreorderRange(_, _, _, _)
PreorderRange(components, lo, hi, depth) ==
    IF lo > hi THEN << >>
    ELSE IF lo = hi
    THEN << [id |-> components[lo].id, kind |-> components[lo].kind,
             depth |-> depth] >>
         \o Preorder(components[lo].children, depth + 1)
    ELSE LET mid == (lo + hi) \div 2
         IN  PreorderRange(components, lo, mid, depth)
             \o PreorderRange(components, mid + 1, hi, depth)

Preorder(components, depth) ==
    PreorderRange(components, 1, Len(components), depth)

Actionable(node) == node.kind = "form" \/ node.kind = "button"

\* No two forms or buttons of the tree have the same id.
ActionableDistinct(nodes) ==
    LET acts == SelectSeq(nodes, Actionable)
    IN  \A i, j \in DOMAIN acts : i # j => acts[i].id # acts[j].id

RECURSIVE MembersPresent(_)
MembersPresent(components) ==
    \A i \in DOMAIN components :
        LET c == components[i]
        IN  /\ c.kind = "markdown" => c.text # None
            /\ c.kind = "code" => c.code # None
            /\ c.kind = "button" => c.label # None
            /\ c.kind = "form" =>
                 \A k \in DOMAIN c.fields :
                     c.fields[k].kind \in { "text", "number", "select", "checkbox" }
            /\ MembersPresent(c.children)

OutputEntriesFor(s, id) ==
    { k \in DOMAIN s.outputs : s.outputs[k].component_id = id }

\* Each part of the validity of schema document s on its own.
Facts(s) ==
    LET nodes == Preorder(s.components, 1)
    IN  [ nodes    |-> nodes,
          count    |-> Len(nodes) <= 64,
          depth    |-> \A i \in DOMAIN nodes : nodes[i].depth <= 4,
          kinds    |-> \A i \in DOMAIN nodes :
                          nodes[i].kind \in { "markdown", "form", "code", "diff", "button" },
          distinct |-> ActionableDistinct(nodes),
          members  |-> MembersPresent(s.components),
          outputs  |-> \A i \in DOMAIN nodes :
                          nodes[i].kind = "button" => OutputEntriesFor(s, nodes[i].id) # { } ]

Validated_ok == validation # None /\ Unwrap(validation).ok
Validated_err(type) ==
    validation # None /\ ~Unwrap(validation).ok /\ Unwrap(validation).error.type = type

\* C4: the component-count budget.  No schema of more than 64 components
\* (counted over the whole tree) validates, a ValidatedSchema has at most 64
\* components, and a schema of more than 64 components that is valid in every
\* other respect fails with TooManyComponents{max: 64, actual: 65}: the error
\* is raised on the 65th component visited.
ComponentBudget ==
    validation # None =>
        LET f == Facts(schema)
        IN  /\ Validated_ok =>
                 /\ f.count
                 /\ Len(Preorder(Unwrap(validation).value.components, 1)) <= 64
            /\ (~f.count /\ f.depth /\ f.kinds /\ f.distinct /\ f.members /\ f.outputs)
               => Unwrap(validation) =
                    Err([type |-> "TooManyComponents", max |-> 64, actual |-> 65])

\* C4 witness: a rejected schema that is valid in every other respect and
\* none of whose top-level branches has more than 40 components.
ComponentBudgetWitness ==
    /\ Validated_err("TooManyComponents")
    /\ Len(schema.components) >= 2
    /\ \A i \in DOMAIN schema.components :
           Len(Preorder(<< schema.components[i] >>, 1)) <= 40
    /\ LET f == Facts(schema)
       IN  f.depth /\ f.kinds /\ f.distinct /\ f.members /\ f.outputs

\* C5: the nesting-depth budget.  No schema with a component at depth 5 or
\* deeper validates, a ValidatedSchema has depth at most 4, a schema that is
\* valid in every other respect fails with NestingTooDeep{max: 4, actual: 5}
\* naming the first component met at depth 5, and depth 4 is accepted.
NestingBudget ==
    validation # None =>
        LET f == Facts(schema)
            deep == SelectSeq(f.nodes, LAMBDA n : n.depth > 4)
            valid == Preorder(Unwrap(validation).value.components, 1)
        IN  /\ Validated_ok =>
                 /\ f.depth
                 /\ \A i \in DOMAIN valid : valid[i].depth <= 4
            /\ (~f.depth /\ f.count /\ f.kinds /\ f.distinct /\ f.members /\ f.outputs)
               => Unwrap(validation) =
                    Err([type |-> "NestingTooDeep", max |-> 4, actual |-> 5,
                         component_id |-> deep[1].id])
            /\ ( /\ f.depth /\ \E i \in DOMAIN f.nodes : f.nodes[i].depth = 4
                 /\ f.count /\ f.kinds /\ f.distinct /\ f.members /\ f.outputs )
               => Validated_ok

\* C5 witness: a schema within the component budget rejected for a button at
\* depth 5.
NestingBudgetWitness ==
    /\ Validated_err("NestingTooDeep")
    /\ LET f == Facts(schema)
       IN  /\ f.count
           /\ \E i \in DOMAIN f.nodes :
                  f.nodes[i].depth = 5 /\ f.nodes[i].kind = "button"

\* The first actionable component, in visiting order, whose id an earlier
\* actionable component already has.
FirstDuplicate(nodes) ==
    LET repeated == { i \in DOMAIN nodes :
                        /\ Actionable(nodes[i])
                        /\ \E j \in 1..(i - 1) : /\ Actionable(nodes[j])
                                                 /\ nodes[j].id = nodes[i].id }
    IN  nodes[CHOOSE i \in repeated : \A k \in repeated : i <= k]

\* C6: actionable ids are unique.  In a ValidatedSchema no two forms or
\* buttons share an id; a schema that is valid in every other respect and
\* has two actionable components with one id fails with
\* DuplicateActionableId for that id; ids of markdown, code and diff
\* components are free to repeat.
ActionableIdsUnique ==
    validation # None =>
        LET f == Facts(schema)
        IN  /\ Validated_ok =>
                 ActionableDistinct(Preorder(Unwrap(validation).value.components, 1))
            /\ (~f.distinct /\ f.count /\ f.depth /\ f.kinds /\ f.members /\ f.outputs)
               => Unwrap(validation) =
                    Err([type |-> "DuplicateActionableId",
                         component_id |-> FirstDuplicate(f.nodes).id])
            /\ (f.distinct /\ f.count /\ f.depth /\ f.kinds /\ f.members /\ f.outputs)
               => Validated_ok

\* C6 witness: a form and a button that are not siblings share an id and the
\* schema is rejected for it.
ActionableIdsUniqueWitness ==
    /\ Validated_err("DuplicateActionableId")
    /\ LET nodes == Preorder(schema.components, 1)
       IN  \E i, j \in DOMAIN nodes :
               /\ nodes[i].kind = "form" /\ nodes[j].kind = "button"
               /\ nodes[i].id = nodes[j].id
               /\ nodes[i].depth # nodes[j].depth

\* The buttons of the validated tree, with their output_event_id.
RECURSIVE ButtonsOf(_)
ButtonsOf(components) ==
    UNION { ( IF components[i].kind = "button"
              THEN { [id |-> components[i].id,
                      output_event_id |-> components[i].output_event_id] }
              ELSE { } )
            \cup ButtonsOf(components[i].children) : i \in DOMAIN components }

\* C7: the button output contract.  For every button of a ValidatedSchema
\* the outputs table of the schema has exactly one entry with the button's
\* id, whose event_id is the button's output_event_id; a button without an
\* entry makes validation fail with MissingButtonOutputContract.
ButtonOutputContract ==
    validation # None =>
        LET f == Facts(schema)
        IN  /\ Validated_ok =>
                 \A b \in ButtonsOf(Unwrap(validation).value.components) :
                     /\ Cardinality(OutputEntriesFor(schema, b.id)) = 1
                     /\ \A k \in OutputEntriesFor(schema, b.id) :
                            schema.outputs[k].event_id = b.output_event_id
            /\ (~f.outputs /\ f.count /\ f.depth /\ f.kinds /\ f.distinct /\ f.members)
               => Validated_err("MissingButtonOutputContract")


(***************************************************************************)
(* ui/catalog.rs: the template index and CatalogManager::resolve.          *)
(***************************************************************************)
\* The strings the program compares or sorts, in the order of String::cmp.
StringOrder ==
    << "block-1", "block-10", "block-11", "block-2",
       "builtin-default", "org", "t1", "t2", "user-local" >>

string_index(s) == CHOOSE i \in DOMAIN StringOrder : StringOrder[i] = s

\* Ordering::Less, Equal, Greater as -1, 0, 1.
cmp(a, b) == IF a < b THEN -1 ELSE IF a = b THEN 0 ELSE 1
string_cmp(a, b) == cmp(string_index(a), string_index(b))
then_with(first, second) == IF first # 0 THEN first ELSE second

\* str::trim on the strings of the model.
trim(s) ==
    CASE s = " review " -> "review"
      [] s = "review "  -> "review"
      [] s = " "        -> ""
      [] s = " t2 "     -> "t2"
      [] OTHER          -> s

\* slice::sort_by, a stable sort: an element moves behind the elements that
\* compare less and behind the equal ones that stood before it.
\* compare[i, j] is the comparator's Ordering of s[i] against s[j].
sort_by(s, compare) ==
    LET place(i) == 1 + Cardinality({ j \in DOMAIN s :
                                        \/ compare[j, i] < 0
                                        \/ compare[j, i] = 0 /\ j < i })
    IN  [k \in DOMAIN s |-> s[CHOOSE i \in DOMAIN s : place(i) = k]]

\* Iterator::position and Iterator::find stop at the first element that
\* passes the test: the least of the indices `hits` that pass it, as an
\* Option.
first(hits) ==
    IF hits = { } THEN None ELSE Some(CHOOSE i \in hits : \A j \in hits : i <= j)

position(s, x) == first({ i \in DOMAIN s : s[i] = x })

find(s, hits) == IF first(hits) = None THEN None ELSE Some(s[Unwrap(first(hits))])

\* A normalization that removes the empty terms and trims none.
normalize_terms_untrimmed(terms) == terms \ { "" }

\* normalize_terms: trimmed, non-empty, deduplicated and sorted, which a set
\* of strings stands for.
normalize_terms(terms) == { trim(t) : t \in terms } \ { "" }

\* UiIntent::new.
UiIntent(primary, operations, tags) ==
    [primary |-> primary, operations |-> normalize_terms(operations),
     tags |-> normalize_terms(tags)]

\* normalize_document.
normalize_document(document) ==
    [meta |-> [id |-> trim(document.meta.id), title |-> trim(document.meta.title),
               version |-> trim(document.meta.version),
               tags |-> normalize_terms(document.meta.tags)],
     match_rules |-> [primary |-> trim(document.match_rules.primary),
                      operations |-> normalize_terms(document.match_rules.operations),
                      tags |-> normalize_terms(document.match_rules.tags)],
     schema |-> document.schema]

\* The checks of parse_and_validate_template on the normalized document
\* (catalog.rs 669-689).
check_document(document, source) ==
    IF trim(document.meta.id) = "" THEN Err("meta.id is required")
    ELSE IF trim(document.meta.title) = "" THEN Err("meta.title is required")
    ELSE IF trim(document.meta.version) = "" THEN Err("meta.version is required")
    ELSE IF trim(document.match_rules.primary) = ""
    THEN Err("match.primary is required")
    ELSE IF ~validate_schema(document.schema).ok THEN Err("schema validation error")
    ELSE Ok([document |-> document, source |-> source])

\* What a provider holds in the place of a template document: a text that
\* is no JSON document, and a file that is no UTF-8 text.
Unparsable == [text |-> "{"]
Unreadable == [bytes |-> "ff"]

\* serde_json::from_str::<TemplateDocument>.
from_str(raw_template) ==
    IF "meta" \in DOMAIN raw_template THEN Ok(raw_template)
    ELSE Err("template parse failed")

\* parse_and_validate_template.
parse_and_validate_template(raw_template, source) ==
    IF ~from_str(raw_template).ok THEN from_str(raw_template)
    ELSE check_document(normalize_document(from_str(raw_template).value), source)

template_id(template) == template.document.meta.id

\* fs::read_to_string.
read_to_string(file) ==
    IF "bytes" \in DOMAIN file THEN Err("stream did not contain valid UTF-8")
    ELSE Ok(file)

\* CatalogError::Io and its Display.
Io(provider_id, path, message) ==
    [type |-> "Io", provider_id |-> provider_id, path |-> path, message |-> message]
io_to_string(error) ==
    [text |-> "provider io error", provider_id |-> error.provider_id,
     path |-> error.path, message |-> error.message]

CatalogLoadDiagnostic(provider_id, template_ref, reason) ==
    [provider_id |-> provider_id, template_ref |-> template_ref, reason |-> reason]

\* The template_ref of the index-th document of a provider: "embedded:"
\* and the index from 0 for a builtin provider, the file name for a
\* directory, whose files are held in the order of their names.
template_ref(source, index) ==
    IF source.kind = "builtin" THEN [embedded |-> index - 1] ELSE [file |-> index]

\* The loop over the documents of a provider (catalog.rs 234-245, 309-330):
\* a template for a document that validates, a diagnostic for another.
\* parsed holds, for every document in order, its place and what
\* parse_and_validate_template returned for it.
split_parsed(source, parsed) ==
    [templates |-> [i \in DOMAIN SelectSeq(parsed, LAMBDA r : r.result.ok) |->
                      SelectSeq(parsed, LAMBDA r : r.result.ok)[i].result.value],
     diagnostics |->
         [i \in DOMAIN SelectSeq(parsed, LAMBDA r : ~r.result.ok) |->
             CatalogLoadDiagnostic(
                 source.provider_id,
                 template_ref(source, SelectSeq(parsed, LAMBDA r : ~r.result.ok)[i].at),
                 SelectSeq(parsed, LAMBDA r : ~r.result.ok)[i].result.error)]]

load_output(provider) ==
    split_parsed(provider.source,
                 [i \in DOMAIN provider.documents |->
                    [at |-> i,
                     result |-> parse_and_validate_template(provider.documents[i],
                                                            provider.source)]])

\* CatalogProvider::load_templates of a provider holding a list of
\* documents.  BuiltinCatalogProvider reads embedded strings;
\* UserCatalogProvider reads the files of its directory and returns
\* CatalogError::Io for the first one that read_to_string cannot read.
load_templates(provider) ==
    LET unread == { i \in DOMAIN provider.documents :
                      ~read_to_string(provider.documents[i]).ok }
    IN  IF provider.source.kind # "builtin" /\ unread # { }
        THEN Err(Io(provider.source.provider_id,
                    template_ref(provider.source, Unwrap(first(unread))),
                    read_to_string(provider.documents[Unwrap(first(unread))]).error))
        ELSE Ok(load_output(provider))

RECURSIVE Concat(_)
Concat(lists) == IF lists = << >> THEN << >> ELSE Head(lists) \o Concat(Tail(lists))

\* The comparator of the sort that ends CatalogManager::reload.
index_order(left, right) ==
    then_with(string_cmp(left.source.provider_id, right.source.provider_id),
              string_cmp(template_id(left), template_id(right)))

sort_index(loaded) ==
    sort_by(loaded, [i, j \in DOMAIN loaded |-> index_order(loaded[i], loaded[j])])

\* CatalogManager::reload: templates and load_diagnostics as it leaves them.
\* Both are cleared; every provider, in provider order, adds its templates
\* and diagnostics, or one diagnostic for its failed load; the templates are
\* then sorted by (provider_id, template id).  loads holds, for every provider in order, what its load_templates
\* returned.
collect_loads(provider_list, loads) ==
    [templates |->
         sort_index(Concat([i \in DOMAIN loads |->
                              IF loads[i].ok THEN loads[i].value.templates
                              ELSE << >>])),
     load_diagnostics |->
         Concat([i \in DOMAIN loads |->
                   IF loads[i].ok THEN loads[i].value.diagnostics
                   ELSE << CatalogLoadDiagnostic(
                               provider_list[i].source.provider_id, "provider",
                               io_to_string(loads[i].error)) >>])]

\* A reload that stops at the first provider whose load fails.
reload_until_failure(provider_list) ==
    LET loads == [i \in DOMAIN provider_list |-> load_templates(provider_list[i])]
        failed == { i \in DOMAIN loads : ~loads[i].ok }
        kept == IF failed = { } THEN Len(loads) ELSE Unwrap(first(failed)) - 1
    IN  [templates |->
             sort_index(Concat([i \in 1..kept |-> loads[i].value.templates])),
         load_diagnostics |->
             Concat([i \in 1..kept |-> loads[i].value.diagnostics])]
reload(provider_list) ==
    collect_loads(provider_list,
                  [i \in DOMAIN provider_list |-> load_templates(provider_list[i])])

\* The manager holds, or comes to hold, what a reload returned.
Holds(loaded) ==
    /\ templates = loaded.templates
    /\ load_diagnostics = loaded.load_diagnostics
ComesToHold(loaded) ==
    /\ templates' = loaded.templates
    /\ load_diagnostics' = loaded.load_diagnostics

\* A precedence with the first two tiers swapped.
precedence_user_first(enabled) ==
    IF enabled THEN << "user", "org", "builtin" >> ELSE << "user", "builtin" >>

\* CatalogManager::precedence.
precedence(enabled) ==
    IF enabled THEN << "org", "user", "builtin" >> ELSE << "user", "builtin" >>

\* The BTreeSet score_secondary collects a list of terms into.
collect(terms) == { terms[i] : i \in DOMAIN terms }

\* An intent as score_secondary reads it: its two lists collected.
collected_intent(intent) ==
    [primary |-> intent.primary, operations |-> collect(intent.operations),
     tags |-> collect(intent.tags)]

score_secondary_without_bonus(intent, template) ==
    LET operation_overlap ==
            Cardinality(template.document.match_rules.operations
                        \cap intent.operations)
        tag_overlap ==
            Cardinality(template.document.match_rules.tags \cap intent.tags)
    IN  [total |-> operation_overlap * 10 + tag_overlap * 4,
         operation_overlap |-> operation_overlap,
         tag_overlap |-> tag_overlap]

\* score_secondary.
score_secondary(intent, template) ==
    LET intent_operations == intent.operations
        intent_tags == intent.tags
        template_operations == template.document.match_rules.operations
        template_tags == template.document.match_rules.tags
        operation_overlap == Cardinality(template_operations \cap intent_operations)
        tag_overlap == Cardinality(template_tags \cap intent_tags)
        exact_operation_bonus ==
            IF template_operations # { } /\ template_operations = intent_operations
            THEN 2 ELSE 0
        exact_tag_bonus ==
            IF template_tags # { } /\ template_tags = intent_tags THEN 1 ELSE 0
    IN  [total |-> operation_overlap * 10 + tag_overlap * 4
                   + exact_operation_bonus + exact_tag_bonus,
         operation_overlap |-> operation_overlap,
         tag_overlap |-> tag_overlap]

\* rank_candidates: score descending, then template_id, then provider_id.
rank_candidates(left, right) ==
    then_with(cmp(right.score, left.score),
              then_with(string_cmp(left.template_id, right.template_id),
                        string_cmp(left.provider_id, right.provider_id)))

\* precedence_index; usize::MAX is a number beyond every index.
precedence_index(kind, tiers) ==
    LET at == position(tiers, kind)
    IN  IF at = None THEN Len(tiers) + 1 ELSE Unwrap(at)

\* The ResolutionCandidate resolve builds for a template of a tier in the
\* precedence (catalog.rs 500-529).
candidate_for(intent, template) ==
    LET required_primary == trim(template.document.match_rules.primary)
        intent_primary == trim(intent.primary)
        score == score_secondary(intent, template)
        base == [template_id |-> template_id(template),
                 provider_id |-> template.source.provider_id,
                 provider_kind |-> template.source.kind,
                 selected |-> FALSE]
    IN  IF required_primary # intent_primary
        THEN base @@ [score |-> 0, operation_overlap |-> 0, tag_overlap |-> 0,
                      excluded_reason |->
                          Some("primary mismatch expected=" \o required_primary
                               \o " actual=" \o intent_primary)]
        ELSE base @@ [score |-> score.total,
                      operation_overlap |-> score.operation_overlap,
                      tag_overlap |-> score.tag_overlap,
                      excluded_reason |-> None]

\* The first loop of resolve (catalog.rs 493-536): a candidate for every
\* template of a tier in the precedence, in index order.
pushed_candidates(index, tiers, intent) ==
    LET in_precedence == SelectSeq(index, LAMBDA t : position(tiers, t.source.kind) # None)
    IN  [i \in DOMAIN in_precedence |-> candidate_for(intent, in_precedence[i])]

\* matches_by_tier.get(tier_index): the candidates of a tier that passed
\* the primary gate.
tier_matches(pushed, tiers, tier_index) ==
    SelectSeq(pushed, LAMBDA c : /\ c.excluded_reason = None
                                 /\ tiers[tier_index] = c.provider_kind)

\* The second loop (catalog.rs 538-561): the best candidate of the first
\* tier that has one, with the index of that tier.
select_winner(pushed, tiers) ==
    LET with_candidates == { i \in DOMAIN tiers : tier_matches(pushed, tiers, i) # << >> }
    IN  IF with_candidates = { } THEN None
        ELSE LET tier_index == Unwrap(first(with_candidates))
                 tier_candidates == tier_matches(pushed, tiers, tier_index)
                 sorted == sort_by(tier_candidates,
                                   [i, j \in DOMAIN tier_candidates |->
                                      rank_candidates(tier_candidates[i],
                                                      tier_candidates[j])])
             IN  Some([tier_index |-> tier_index, best |-> sorted[1]])

\* The third loop (catalog.rs 563-589) on one candidate.
mark_candidate(candidate, winner, tiers) ==
    IF /\ candidate.template_id = winner.best.template_id
       /\ candidate.provider_id = winner.best.provider_id
    THEN [candidate EXCEPT !.selected = TRUE]
    ELSE IF candidate.excluded_reason = None
    THEN [candidate EXCEPT !.excluded_reason =
            Some(IF precedence_index(candidate.provider_kind, tiers) > winner.tier_index
                 THEN "lower provider precedence than " \o tiers[winner.tier_index]
                 ELSE "lower score or tie-break in same tier")]
    ELSE candidate

\* The comparator of the final sort of ranked_candidates (catalog.rs 591-596).
ranked_order(left, right, tiers) ==
    then_with(rank_candidates(left, right),
              cmp(precedence_index(left.provider_kind, tiers),
                  precedence_index(right.provider_kind, tiers)))

\* ranked_candidates as the trace holds it: marked, then sorted.
rank_all(pushed, winner, tiers) ==
    LET marked == IF winner = None THEN pushed
                  ELSE [i \in DOMAIN pushed |->
                          mark_candidate(pushed[i], Unwrap(winner), tiers)]
    IN  sort_by(marked, [i, j \in DOMAIN marked |->
                           ranked_order(marked[i], marked[j], tiers)])

\* One line of no_match_reasons.
reason_line(candidate) ==
    candidate.provider_id \o ":" \o candidate.template_id \o " "
    \o ( IF candidate.excluded_reason = None THEN "no ranking winner"
         ELSE Unwrap(candidate.excluded_reason) )

\* The ResolutionResult resolve returns (catalog.rs 598-642).
resolution_result(intent, tiers, selected, ranked_candidates) ==
    [selected |-> selected,
     trace |->
       [intent |-> intent,
        provider_precedence |-> tiers,
        selected_template_id |->
            IF selected = None THEN None ELSE Some(template_id(Unwrap(selected))),
        selected_provider_id |->
            IF selected = None THEN None ELSE Some(Unwrap(selected).source.provider_id),
        selected_score |->
            LET chosen == find(ranked_candidates,
                               { i \in DOMAIN ranked_candidates :
                                   ranked_candidates[i].selected })
            IN  IF chosen = None THEN None ELSE Some(Unwrap(chosen).score),
        ranked_candidates |-> ranked_candidates,
        no_match_reasons |->
            IF selected # None THEN << >>
            ELSE IF ranked_candidates = << >>
            THEN << "catalog index contains no templates" >>
            ELSE [i \in DOMAIN ranked_candidates |->
                    reason_line(ranked_candidates[i])]]]

\* The template the winner's (template_id, provider_id) key finds in the
\* index (catalog.rs 551-558).
winning_template(index, winner) ==
    IF winner = None THEN None
    ELSE find(index, { i \in DOMAIN index :
                         /\ template_id(index[i]) = Unwrap(winner).best.template_id
                         /\ index[i].source.provider_id = Unwrap(winner).best.provider_id })

\* resolve with the precedence worked out.
resolve_in(index, tiers, intent, pushed) ==
    resolution_result(intent, tiers,
                      winning_template(index, select_winner(pushed, tiers)),
                      rank_all(pushed, select_winner(pushed, tiers), tiers))

resolve_remembering(index, enabled, intent) ==
    IF resolution = None
    THEN resolve_in(index, precedence(enabled), intent,
                    pushed_candidates(index, precedence(enabled), intent))
    ELSE resolution_result(
             intent, precedence(enabled),
             winning_template(index,
                 select_winner(pushed_candidates(index, precedence(enabled), intent),
                               precedence(enabled))),
             [i \in DOMAIN index |->
                 rank_all(pushed_candidates(index, precedence(enabled), intent),
                          select_winner(pushed_candidates(index, precedence(enabled),
                                                          intent),
                                        precedence(enabled)),
                          precedence(enabled))[Len(index) + 1 - i]])

\* CatalogManager::resolve on the index `index`.
resolve(index, enabled, intent) ==
    resolve_in(index, precedence(enabled), intent,
               pushed_candidates(index, precedence(enabled), intent))

\* CatalogManager::resolve on an intent whose lists may repeat a term:
\* score_secondary collects them, the trace keeps the intent as it came.
resolve_listed(index, enabled, intent) ==
    [resolve(index, enabled, collected_intent(intent)) EXCEPT !.trace.intent = intent]


(***************************************************************************)
(* Specification CatalogSpec: a CatalogManager over an org, a user and a   *)
(* builtin provider, built by CatalogManager::new, and resolve calls.      *)
(***************************************************************************)
MaxCatalogTemplates == 3    \* documents held by the providers together

Operations == { "approve", "reject" }

TemplateDocument(id, primary, operations, tags) ==
    [meta |-> [id |-> id, title |-> "Title", version |-> "1.0.0", tags |-> { }],
     match_rules |-> [primary |-> primary, operations |-> operations, tags |-> tags],
     schema |-> UiSchema(<< >>, << Markdown("m", << >>) >>)]

Documents ==
    { TemplateDocument("t1", "review", { }, { }),
      TemplateDocument("t2", "review ", Operations, { "security" }),
      TemplateDocument("t2", "plan", Operations, { }) }

Intents ==
    { UiIntent("review", { }, { }),
      UiIntent(" review ", Operations, { "security", " " }),
      UiIntent("plan", Operations, { "security" }) }

CatalogSource(provider_id, kind, read_only) ==
    [provider_id |-> provider_id, kind |-> kind, read_only |-> read_only]

Sources ==
    << CatalogSource("org", "org", TRUE),
       CatalogSource("user-local", "user", FALSE),
       CatalogSource("builtin-default", "builtin", TRUE) >>

\* The provider lists: the three providers, holding at most
\* MaxCatalogTemplates documents together.
ProviderLists ==
    UNION { UNION { UNION {
        { << [source |-> Sources[1], documents |-> a],
             [source |-> Sources[2], documents |-> b],
             [source |-> Sources[3], documents |-> c] >> :
            a \in [1..n1 -> Documents], b \in [1..n2 -> Documents],
            c \in [1..n3 -> Documents] } :
        n3 \in 0..(MaxCatalogTemplates - n1 - n2) } :
        n2 \in 0..(MaxCatalogTemplates - n1) } :
        n1 \in 0..MaxCatalogTemplates }

CatalogInit ==
    /\ providers \in ProviderLists
    /\ org_enabled \in BOOLEAN
    /\ Holds(reload(providers))
    /\ resolution = None
    /\ mutation = None
    /\ SchemaIdle
    /\ TurnIdle
    /\ CanvasIdle

Resolve ==
    \E intent \in Intents :
        /\ resolution' = Some(resolve(templates, org_enabled, intent))
        /\ UNCHANGED << providers, templates, load_diagnostics, org_enabled,
                        mutation, schemaVars, turnVars, canvasVars >>

CatalogNext == Resolve

CatalogSpec == CatalogInit /\ [][CatalogNext]_vars

\* The templates of the index in tier `kind` that pass the primary gate for
\* `intent`.
TierMatches(kind, intent) ==
    { i \in DOMAIN templates :
        /\ templates[i].source.kind = kind
        /\ trim(templates[i].document.match_rules.primary) = trim(intent.primary) }

\* C1: tier precedence.  With the tiers ordered org, user, builtin when the
\* organization tier is enabled and user, builtin otherwise, the selected
\* template is a template of the index from the first tier that has a
\* template whose primary equals the intent's, whatever the scores; nothing
\* is selected only when no tier has one.
TierPrecedence ==
    resolution # None =>
        LET result == Unwrap(resolution)
            intent == result.trace.intent
            order == IF org_enabled THEN << "org", "user", "builtin" >>
                     ELSE << "user", "builtin" >>
            with_match == { k \in DOMAIN order : TierMatches(order[k], intent) # { } }
        IN  IF with_match = { } THEN result.selected = None
            ELSE LET top == CHOOSE k \in with_match : \A j \in with_match : k <= j
                 IN  /\ result.selected # None
                     /\ Unwrap(result.selected).source.kind = order[top]
                     /\ \E i \in DOMAIN templates :
                            templates[i] = Unwrap(result.selected)

\* C1 witness: the organization tier is enabled and its only match, of
\* score 0, is selected although the user tier has a match of score 20 or
\* more.
TierPrecedenceWitness ==
    /\ resolution # None
    /\ org_enabled
    /\ LET result == Unwrap(resolution)
       IN  /\ result.selected # None
           /\ Unwrap(result.selected).source.kind = "org"
           /\ result.trace.selected_score = Some(0)
           /\ \E i \in DOMAIN result.trace.ranked_candidates :
                  /\ result.trace.ranked_candidates[i].provider_kind = "user"
                  /\ result.trace.ranked_candidates[i].score >= 20


(***************************************************************************)
(* app.rs: canvas blocks and the target of a render request.               *)
(***************************************************************************)
\* UiRuntime::new.
NewRuntime ==
    [validated_schema |-> None, runtime_error |-> None, form_state |-> << >>,
     event_log |-> << >>]

\* CanvasBlockState (ui/workspace.rs) and CanvasBlock.
CanvasBlockState(block_id, template, title, provider_id, provider_kind, block_schema, intent, minimized, form_state) ==
    [block_id |-> block_id, template_id |-> template, title |-> title,
     provider_id |-> provider_id, provider_kind |-> provider_kind,
     schema |-> block_schema, intent |-> intent, minimized |-> minimized,
     form_state |-> form_state]

CanvasBlock(state, ui_runtime, synced_event_count, last_touched_at) ==
    [state |-> state, ui_runtime |-> ui_runtime,
     synced_event_count |-> synced_event_count,
     last_touched_at |-> last_touched_at]

\* BlockTargetResolution; Existing holds an index into the block list,
\* counted from 1.
Existing(index) == [type |-> "Existing", index |-> index]
NotFound == [type |-> "NotFound"]
Ambiguous(block_ids) == [type |-> "Ambiguous", block_ids |-> block_ids]

\* An active-block test that forgets the template.
active_match_any_template(blocks, active, template) ==
    IF active = None THEN None
    ELSE position([i \in DOMAIN blocks |-> blocks[i].state.block_id], Unwrap(active))

\* The active block when it shows the requested template (app.rs 60-67).
active_match(blocks, active, template) ==
    IF active = None THEN None
    ELSE first({ i \in DOMAIN blocks :
                   /\ blocks[i].state.block_id = Unwrap(active)
                   /\ blocks[i].state.template_id = template })

\* The oldest touch instead of the newest.
oldest_touch(touches) ==
    IF touches = { } THEN 0 ELSE CHOOSE t \in touches : \A u \in touches : t <= u

\* Iterator::max over the touch times, 0 when there is none (app.rs 78-82).
newest_touch(touches) ==
    IF touches = { } THEN 0 ELSE CHOOSE t \in touches : \A u \in touches : t >= u

\* Vec<String>::sort.
sort_strings(strings) ==
    sort_by(strings, [i, j \in DOMAIN strings |-> string_cmp(strings[i], strings[j])])

\* The recency rule on the indices `matches` of the blocks that show the
\* requested template (app.rs 74-95).
most_recent(blocks, matches) ==
    LET newest == newest_touch({ blocks[i].last_touched_at : i \in matches })
    IN  { i \in matches : blocks[i].last_touched_at = newest }

resolve_by_recency(blocks, retained) ==
    IF Cardinality(retained) = 1 THEN Existing(CHOOSE i \in retained : TRUE)
    ELSE Ambiguous(sort_strings(
             [k \in 1..Cardinality(retained) |->
                blocks[CHOOSE i \in retained :
                         Cardinality({ j \in retained : j < i }) = k - 1].state.block_id]))

\* resolve_block_target_for_template.
resolve_block_target_for_template(blocks, active, template) ==
    IF active_match(blocks, active, template) # None
    THEN Existing(Unwrap(active_match(blocks, active, template)))
    ELSE IF { i \in DOMAIN blocks : blocks[i].state.template_id = template } = { }
    THEN NotFound
    ELSE resolve_by_recency(blocks,
             most_recent(blocks, { i \in DOMAIN blocks :
                                     blocks[i].state.template_id = template }))


(***************************************************************************)
(* Specification TargetSpec: resolve_block_target_for_template applied to  *)
(* a block list, an active block id and a template id.                     *)
(***************************************************************************)
MaxTargetBlocks == 3    \* blocks of a block list

TargetBlockIds == { "block-1", "block-2", "block-10", "block-11" }
TemplateIds == { "t1", "t2" }
TouchTimes == { 777, 999 }

\* A schema document as a serde_json::Value: schema_version is a JSON value,
\* a number in a well-formed document.
SchemaValue(schema_version, outputs, components) ==
    [schema_version |-> schema_version, outputs |-> outputs,
     components |-> components]

EmptySchema == SchemaValue(JsonNumber(1), << >>, << >>)

TargetBlock(block_id, template, touched) ==
    CanvasBlock(CanvasBlockState(block_id, template, "Title", "builtin-default",
                                 "builtin", EmptySchema, UiIntent("review", { }, { }),
                                 FALSE, << >>),
                NewRuntime, 0, touched)

\* The block lists of exactly n blocks, no two with one block id.
RECURSIVE TargetBlockLists(_)
TargetBlockLists(n) ==
    IF n = 0 THEN { << >> }
    ELSE UNION { { Append(blocks, TargetBlock(id, template, touched)) :
                     id \in TargetBlockIds
                             \ { blocks[i].state.block_id : i \in DOMAIN blocks },
                     template \in TemplateIds, touched \in TouchTimes } :
                 blocks \in TargetBlockLists(n - 1) }

TargetInit ==
    /\ canvas_blocks \in UNION { TargetBlockLists(n) : n \in 0..MaxTargetBlocks }
    /\ active_block_id \in { None } \cup { Some(id) : id \in TargetBlockIds }
    /\ block_nonce = 0
    /\ canvas_event_log = << >>
    /\ selected_template = None
    /\ active_intent = None
    /\ current_session = None
    /\ clock = 0
    /\ target_resolution = None
    /\ allocated_ids = { }
    /\ SchemaIdle
    /\ TurnIdle
    /\ CatalogIdle

ResolveTarget ==
    \E template \in TemplateIds :
        /\ target_resolution' =
               Some([template_id |-> template,
                     result |-> resolve_block_target_for_template(
                                    canvas_blocks, active_block_id, template)])
        /\ UNCHANGED << canvas_blocks, active_block_id, block_nonce, canvas_event_log,
                        selected_template, active_intent, current_session,
                        clock, allocated_ids, schemaVars, turnVars, catalogVars >>

TargetNext == ResolveTarget

TargetSpec == TargetInit /\ [][TargetNext]_vars

\* The blocks of the list that show the requested template, and whether
\* the active block is one of them.
Showing(template) ==
    { i \in DOMAIN canvas_blocks : canvas_blocks[i].state.template_id = template }

ActiveShows(template) ==
    /\ active_block_id # None
    /\ \E i \in Showing(template) :
           canvas_blocks[i].state.block_id = Unwrap(active_block_id)

\* What the recency rule gives for the requested template: NotFound
\* without a block of that template; the block touched last when it is the
\* only one with that touch time; otherwise Ambiguous with the ids of the
\* blocks touched last, at least two, in ascending order.
ByRecency(template, result) ==
    LET showing == Showing(template)
        latest == { i \in showing :
                      \A j \in showing : canvas_blocks[j].last_touched_at
                                           <= canvas_blocks[i].last_touched_at }
    IN  IF showing = { } THEN result = NotFound
        ELSE IF Cardinality(latest) = 1
        THEN result = Existing(CHOOSE i \in latest : TRUE)
        ELSE /\ result.type = "Ambiguous"
             /\ Len(result.block_ids) = Cardinality(latest)
             /\ Len(result.block_ids) >= 2
             /\ { result.block_ids[k] : k \in DOMAIN result.block_ids }
                  = { canvas_blocks[i].state.block_id : i \in latest }
             /\ \A k \in 1..(Len(result.block_ids) - 1) :
                    string_index(result.block_ids[k])
                      < string_index(result.block_ids[k + 1])

\* C2: target resolution without an active match follows the recency rule;
\* blocks of other templates do not influence the result.
TargetByRecency ==
    target_resolution # None =>
        LET request == Unwrap(target_resolution)
        IN  ~ActiveShows(request.template_id)
              => ByRecency(request.template_id, request.result)

\* C2 witness: no active block, and the result is Ambiguous although a block
\* of another template was touched later than the ambiguous ones.
TargetByRecencyWitness ==
    /\ target_resolution # None
    /\ active_block_id = None
    /\ LET request == Unwrap(target_resolution)
       IN  /\ request.result.type = "Ambiguous"
           /\ request.result.block_ids = << "block-10", "block-2" >>
           /\ \E i \in DOMAIN canvas_blocks :
                  /\ canvas_blocks[i].state.template_id # request.template_id
                  /\ \A j \in Showing(request.template_id) :
                         canvas_blocks[j].last_touched_at < canvas_blocks[i].last_touched_at

\* C3: active-match priority.  When the active block id names a block that
\* shows the requested template the result is Existing(that block),
\* whatever the touch times; an active block of another template is
\* ignored and the recency rule applies.
ActiveMatchPriority ==
    target_resolution # None =>
        LET request == Unwrap(target_resolution)
        IN  /\ ActiveShows(request.template_id) =>
                 /\ request.result.type = "Existing"
                 /\ canvas_blocks[request.result.index].state.block_id
                      = Unwrap(active_block_id)
                 /\ canvas_blocks[request.result.index].state.template_id
                      = request.template_id
            /\ ( /\ active_block_id # None
                 /\ \E i \in DOMAIN canvas_blocks :
                        /\ canvas_blocks[i].state.block_id = Unwrap(active_block_id)
                        /\ canvas_blocks[i].state.template_id # request.template_id )
               => ByRecency(request.template_id, request.result)

\* C3 witness: the active block shows the requested template and is the
\* result although two other blocks of the template were touched later and
\* tie with each other.
ActiveMatchPriorityWitness ==
    /\ target_resolution # None
    /\ ActiveShows(Unwrap(target_resolution).template_id)
    /\ LET request == Unwrap(target_resolution)
           chosen == request.result.index
       IN  /\ request.result.type = "Existing"
           /\ \E i, j \in Showing(request.template_id) :
                  /\ i # j
                  /\ canvas_blocks[i].last_touched_at = canvas_blocks[j].last_touched_at
                  /\ canvas_blocks[i].last_touched_at
                       > canvas_blocks[chosen].last_touched_at


(***************************************************************************)
(* ui/runtime.rs: UiRuntime.                                               *)
(***************************************************************************)
\* serde_json::from_value::<UiSchema>: schema_version has to be a number;
\* outputs and components are taken as they are.
from_value(raw_schema) ==
    IF raw_schema.schema_version[1] = "number"
    THEN Ok([schema_version |-> raw_schema.schema_version[2],
             outputs |-> raw_schema.outputs,
             components |-> raw_schema.components])
    ELSE Err("invalid type: " \o raw_schema.schema_version[1] \o ", expected u32")

\* RuntimeError and its Display.
Deserialize(message) == [type |-> "Deserialize", message |-> message]
Validation(message) == [type |-> "Validation", message |-> message]
\* The Display of ValidationError (schema.rs 351-400), its backquotes
\* written as quotes.
fmt(error) ==
    CASE error.type = "UnknownComponent" ->
            "unknown component kind '" \o error.kind \o "' for component '"
            \o error.component_id \o "'"
      [] error.type = "UnsupportedFieldType" ->
            "unsupported field kind '" \o error.kind \o "' for form '"
            \o error.form_id \o "' field '" \o error.field_id \o "'"
      [] error.type = "MissingRequiredField" ->
            "missing required field '" \o error.field \o "' for component '"
            \o error.component_id \o "'"
      [] error.type = "TooManyComponents" ->
            "component count " \o ToString(error.actual) \o " exceeds max "
            \o ToString(error.max)
      [] error.type = "NestingTooDeep" ->
            "component '" \o error.component_id \o "' nesting depth "
            \o ToString(error.actual) \o " exceeds max " \o ToString(error.max)
      [] error.type = "DuplicateActionableId" ->
            "duplicate actionable component id '" \o error.component_id \o "'"
      [] error.type = "MissingButtonOutputContract" ->
            "button '" \o error.button_id \o "' missing output contract mapping"

to_string(error) ==
    IF error.type = "Deserialize"
    THEN "schema deserialize error: " \o error.message
    ELSE "schema validation error: " \o fmt(error.message)

\* BTreeMap::insert on a map kept as a function of its keys.
insert(map, key, value) ==
    [k \in DOMAIN map \cup { key } |-> IF k = key THEN value ELSE map[k]]

\* ValidatedFormField::default_value.
default_value(field) == [kind |-> field.kind, value |-> field.default]

\* The inner loop of seed_form_state over the fields of one form.
RECURSIVE seed_fields(_, _, _)
seed_fields(form_state, form_id, fields) ==
    IF fields = << >> THEN form_state
    ELSE seed_fields(insert(form_state, field_key(form_id, Head(fields).id),
                            default_value(Head(fields))),
                     form_id, Tail(fields))

\* UiRuntime::seed_form_state: every form of the tree, a component before
\* its children.
RECURSIVE seed_form_state(_, _)
seed_form_state(form_state, components) ==
    IF components = << >> THEN form_state
    ELSE seed_form_state(
             seed_form_state(
                 IF Head(components).kind = "form"
                 THEN seed_fields(form_state, Head(components).id,
                                  Head(components).fields)
                 ELSE form_state,
                 Head(components).children),
             Tail(components))

\* UiRuntime::load_schema once validate_schema has answered.
load_validated(runtime, validated) ==
    IF ~validated.ok
    THEN [ui_runtime |-> [runtime EXCEPT
                            !.runtime_error = Some(Validation(validated.error))],
          result |-> Err(Validation(validated.error))]
    ELSE [ui_runtime |-> [runtime EXCEPT
                            !.form_state = seed_form_state(runtime.form_state,
                                               validated.value.components),
                            !.validated_schema = Some(validated.value)],
          result |-> Ok(<< >>)]

load_schema(runtime, parsed) == load_validated(runtime, validate_schema(parsed))

\* UiRuntime::load_schema_value once the runtime is cleared and the value
\* deserialized.
load_parsed(runtime, parsed) ==
    IF ~parsed.ok
    THEN [ui_runtime |-> [runtime EXCEPT
                            !.runtime_error = Some(Deserialize(parsed.error))],
          result |-> Err(Deserialize(parsed.error))]
    ELSE load_schema(runtime, parsed.value)

load_schema_value_keeping_form(runtime, raw_schema) ==
    load_parsed([runtime EXCEPT !.validated_schema = None,
                                !.runtime_error = None],
                from_value(raw_schema))

\* UiRuntime::load_schema_value: the runtime it leaves and the Result.
load_schema_value(runtime, raw_schema) ==
    load_parsed([runtime EXCEPT !.validated_schema = None,
                                !.runtime_error = None,
                                !.form_state = << >>],
                from_value(raw_schema))

\* The buttons of a validated tree, a component before its children.
RECURSIVE buttons_of(_)
buttons_of(components) ==
    IF components = << >> THEN << >>
    ELSE (IF Head(components).kind = "button" THEN << Head(components) >>
          ELSE << >>)
         \o buttons_of(Head(components).children)
         \o buttons_of(Tail(components))

\* UiEvent::ButtonClicked as ComponentRegistry::render_component emits it.
ButtonClicked(button) ==
    [event |-> "button_clicked", component_id |-> button.id,
     output_event_id |-> button.output_event_id]

\* UiRuntime::render_canvas with a click on the button `clicked` (an index
\* into buttons_of, or None): nothing is rendered under a runtime error or
\* without a schema.
render_canvas(runtime, clicked) ==
    IF runtime.runtime_error # None \/ runtime.validated_schema = None
       \/ clicked = None
    THEN runtime
    ELSE [runtime EXCEPT !.event_log =
            Append(@, ButtonClicked(
                buttons_of(Unwrap(runtime.validated_schema).components)[Unwrap(clicked)]))]

\* The form fields of a validated tree with the id of their form, a
\* component before its children.
RECURSIVE form_fields(_)
form_fields(components) ==
    IF components = << >> THEN << >>
    ELSE (IF Head(components).kind = "form"
          THEN [f \in DOMAIN Head(components).fields |->
                   [form_id |-> Head(components).id,
                    field |-> Head(components).fields[f]]]
          ELSE << >>)
         \o form_fields(Head(components).children)
         \o form_fields(Tail(components))

\* UiEvent::FormFieldCommitted as render_form_field emits it.
FormFieldCommitted(form_id, field_id, value) ==
    [event |-> "form_field_committed", component_id |-> form_id,
     form_id |-> form_id, field_id |-> field_id, value |-> value]

\* BTreeMap::entry(key).or_insert_with.
or_insert(map, key, value) == IF key \in DOMAIN map THEN map ELSE insert(map, key, value)

\* The value the widget of a field shows: the one of form_state when it is
\* of the kind of the field, the default of the field otherwise.
shown_value(current, field) ==
    IF current.kind = field.kind THEN current ELSE default_value(field)

render_form_field_newest_first(runtime, form_id, field, input) ==
    IF input # None
    THEN [runtime EXCEPT
            !.form_state = insert(@, field_key(form_id, field.id), Unwrap(input)),
            !.event_log = << FormFieldCommitted(form_id, field.id, Unwrap(input)) >>
                          \o @]
    ELSE runtime

\* ComponentRegistry::render_form_field; `input` is the value the user
\* commits in this frame, or None.  A text field is written back every
\* frame, the other kinds when they change.
render_form_field(runtime, form_id, field, input) ==
    IF input # None
    THEN [runtime EXCEPT
            !.form_state = insert(@, field_key(form_id, field.id), Unwrap(input)),
            !.event_log = Append(@, FormFieldCommitted(form_id, field.id,
                                                        Unwrap(input)))]
    ELSE IF field.kind = "text"
    THEN [runtime EXCEPT
            !.form_state =
               insert(@, field_key(form_id, field.id),
                      shown_value(or_insert(@, field_key(form_id, field.id),
                                            default_value(field))
                                     [field_key(form_id, field.id)],
                                  field))]
    ELSE [runtime EXCEPT
            !.form_state = or_insert(@, field_key(form_id, field.id),
                                     default_value(field))]


(***************************************************************************)
(* app.rs: the canvas transitions and handlers of BrownieApp.              *)
(***************************************************************************)
block_ids(blocks) == [i \in DOMAIN blocks |-> blocks[i].state.block_id]

\* A focus transition that touches every block.
apply_focus_transition_touching_all(blocks, active, block_id, touched_at) ==
    IF position(block_ids(blocks), block_id) = None
    THEN [blocks |-> blocks, active_block_id |-> active, result |-> FALSE]
    ELSE [blocks |-> [i \in DOMAIN blocks |->
                        [blocks[i] EXCEPT !.last_touched_at = touched_at]],
          active_block_id |-> Some(block_id), result |-> TRUE]

\* apply_focus_transition: the block list, the active id and the bool it
\* returns.
apply_focus_transition(blocks, active, block_id, touched_at) ==
    IF position(block_ids(blocks), block_id) = None
    THEN [blocks |-> blocks, active_block_id |-> active, result |-> FALSE]
    ELSE [blocks |-> [blocks EXCEPT
                        ![Unwrap(position(block_ids(blocks), block_id))].last_touched_at =
                            touched_at],
          active_block_id |-> Some(block_id), result |-> TRUE]

\* A minimize transition that sets the flag instead of flipping it.
apply_toggle_minimize_transition_setting(blocks, block_id, touched_at) ==
    IF position(block_ids(blocks), block_id) = None
    THEN [blocks |-> blocks, result |-> None]
    ELSE [blocks |-> [blocks EXCEPT
                        ![Unwrap(position(block_ids(blocks), block_id))] =
                            [@ EXCEPT !.state.minimized = TRUE,
                                      !.last_touched_at = touched_at]],
          result |-> Some(TRUE)]

\* apply_toggle_minimize_transition: the block list and the Option<bool> it
\* returns.
apply_toggle_minimize_transition(blocks, block_id, touched_at) ==
    IF position(block_ids(blocks), block_id) = None
    THEN [blocks |-> blocks, result |-> None]
    ELSE [blocks |-> [blocks EXCEPT
                        ![Unwrap(position(block_ids(blocks), block_id))] =
                            [@ EXCEPT !.state.minimized = ~@,
                                      !.last_touched_at = touched_at]],
          result |-> Some(~blocks[Unwrap(position(block_ids(blocks), block_id))]
                             .state.minimized)]

\* Vec::retain of the blocks with another id.
retain_others(blocks, block_id) ==
    SelectSeq(blocks, LAMBDA block : block.state.block_id # block_id)

\* A fallback to the first remaining block instead of the last.
close_fallback_first(retained) ==
    IF retained = << >> THEN None ELSE Some(retained[1].state.block_id)

\* blocks.last().map(|block| block.state.block_id.clone()) (app.rs 141).
close_fallback(retained) ==
    IF retained = << >> THEN None ELSE Some(retained[Len(retained)].state.block_id)

\* A close that leaves the active id as it was.
close_retained_keeping_active(blocks, active, block_id, retained) ==
    [blocks |-> retained, active_block_id |-> active,
     result |-> Len(retained) # Len(blocks)]

\* apply_close_transition once the other blocks are retained.
close_retained(blocks, active, block_id, retained) ==
    IF Len(retained) = Len(blocks)
    THEN [blocks |-> retained, active_block_id |-> active, result |-> FALSE]
    ELSE [blocks |-> retained,
          active_block_id |-> IF active = Some(block_id)
                              THEN close_fallback(retained) ELSE active,
          result |-> TRUE]

apply_close_transition(blocks, active, block_id) ==
    close_retained(blocks, active, block_id, retain_others(blocks, block_id))

\* BrownieApp::next_block_id: the nonce after the call and the id.  The
\* saturation of saturating_add at u64::MAX lies beyond every nonce here.
next_block_id(nonce) ==
    [block_nonce |-> nonce + 1, block_id |-> "block-" \o ToString(nonce + 1)]

active_block_index(blocks, active) ==
    IF active = None THEN None ELSE position(block_ids(blocks), Unwrap(active))

TemplateSelectionContext(state) ==
    [template_id |-> state.template_id, title |-> state.title,
     provider_id |-> state.provider_id, provider_kind |-> state.provider_kind]

\* BrownieApp::sync_active_selection_context on the blocks and active id the
\* handler leaves.
sync_active_selection_context(blocks, active) ==
    IF active_block_index(blocks, active) = None
    THEN /\ selected_template' = None
         /\ UNCHANGED active_intent
    ELSE /\ selected_template' =
               Some(TemplateSelectionContext(
                        blocks[Unwrap(active_block_index(blocks, active))].state))
         /\ active_intent' =
               Some(blocks[Unwrap(active_block_index(blocks, active))].state.intent)

CanvasWorkspaceState(blocks, active) ==
    [blocks |-> blocks, active_block_id |-> active]

snapshot_canvas_workspace(blocks, active) ==
    CanvasWorkspaceState(
        [i \in DOMAIN blocks |->
            [blocks[i].state EXCEPT !.form_state = blocks[i].ui_runtime.form_state]],
        active)

\* BrownieApp::persist_current_session: nothing without a session.
persist_current_session(blocks, active) ==
    current_session' =
        IF current_session = None THEN None
        ELSE Some([canvas_workspace |-> snapshot_canvas_workspace(blocks, active)])

\* A lifecycle event that names the system as the actor of a failure.
CanvasBlockLifecycle_system(action, actor, status, block_id, message) ==
    [event |-> "canvas_block_lifecycle", action |-> action,
     actor |-> IF status = "failed" THEN "system" ELSE actor,
     status |-> status, block_id |-> block_id, message |-> message]

\* The UiEvent that emit_canvas_lifecycle pushes.
CanvasBlockLifecycle(action, actor, status, block_id, message) ==
    [event |-> "canvas_block_lifecycle", action |-> action, actor |-> actor,
     status |-> status, block_id |-> block_id, message |-> message]

\* <[String]>::join(", ").
RECURSIVE join(_)
join(strings) ==
    IF strings = << >> THEN ""
    ELSE IF Len(strings) = 1 THEN strings[1]
    ELSE strings[1] \o ", " \o join(Tail(strings))

\* An explicit target that falls back to the first block when no block has
\* the id.
explicit_target_guessing(blocks, target_block_id, actor) ==
    IF position(block_ids(blocks), target_block_id) # None
    THEN [type |-> "Existing",
          index |-> Unwrap(position(block_ids(blocks), target_block_id))]
    ELSE IF blocks # << >> THEN [type |-> "Existing", index |-> 1]
    ELSE [type |-> "Rejected",
          event |-> CanvasBlockLifecycle("update", actor, "failed",
                        Some(target_block_id),
                        Some("explicit target block_id not found"))]

\* The target of a render request (app.rs 525-561): the index of the block
\* to update, "OpenNew", or the Failed event of a rejected request.
explicit_target(blocks, target_block_id, actor) ==
    IF position(block_ids(blocks), target_block_id) # None
    THEN [type |-> "Existing",
          index |-> Unwrap(position(block_ids(blocks), target_block_id))]
    ELSE [type |-> "Rejected",
          event |-> CanvasBlockLifecycle("update", actor, "failed",
                        Some(target_block_id),
                        Some("explicit target block_id not found"))]

\* A request without a target block that opens a block whatever the
\* resolution returned.
resolved_target_opening(resolved, actor) == [type |-> "OpenNew"]

\* The match on the BlockTargetResolution of a request without a target
\* block (app.rs 543-560).
resolved_target(resolved, actor) ==
    CASE resolved.type = "Existing" -> resolved
      [] resolved.type = "NotFound" -> [type |-> "OpenNew"]
      [] resolved.type = "Ambiguous" ->
            [type |-> "Rejected",
             event |-> CanvasBlockLifecycle("update", actor, "failed", None,
                           Some("ambiguous target; specify block_id (candidates: "
                                \o join(resolved.block_ids) \o ")"))]

update_target(blocks, active, request, actor) ==
    IF request.target_block_id # None
    THEN explicit_target(blocks, Unwrap(request.target_block_id), actor)
    ELSE resolved_target(
             resolve_block_target_for_template(blocks, active, request.template_id),
             actor)


\* The block a successful Update leaves, without the reset of the counter
\* of synced events.
update_block_keeping_count(block, request, ui_runtime, now) ==
    [block EXCEPT !.ui_runtime = ui_runtime,
                  !.state.schema = request.schema,
                  !.state.title = request.title,
                  !.state.provider_id = request.provider_id,
                  !.state.provider_kind = request.provider_kind,
                  !.state.intent = request.intent,
                  !.state.minimized = FALSE,
                  !.last_touched_at = now]

\* The block a successful Update leaves (app.rs 574-594): the runtime holds
\* the loaded schema, state.template_id and state.form_state stay.
update_block(block, request, ui_runtime, now) ==
    [block EXCEPT !.ui_runtime = ui_runtime,
                  !.state.schema = request.schema,
                  !.state.title = request.title,
                  !.state.provider_id = request.provider_id,
                  !.state.provider_kind = request.provider_kind,
                  !.state.intent = request.intent,
                  !.state.minimized = FALSE,
                  !.last_touched_at = now,
                  !.synced_event_count = 0]

\* A new block that starts minimized.
new_block_minimized(block_id, request, ui_runtime, now) ==
    CanvasBlock(CanvasBlockState(block_id, request.template_id, request.title,
                                 request.provider_id, request.provider_kind,
                                 request.schema, request.intent, TRUE,
                                 ui_runtime.form_state),
                ui_runtime, 0, now)

\* The block an Open pushes (app.rs 628-644).
new_block(block_id, request, ui_runtime, now) ==
    CanvasBlock(CanvasBlockState(block_id, request.template_id, request.title,
                                 request.provider_id, request.provider_kind,
                                 request.schema, request.intent, FALSE,
                                 ui_runtime.form_state),
                ui_runtime, 0, now)

\* The Update branch of apply_canvas_block_from_schema; `loaded` is what
\* load_schema_value made of the block's own runtime.
UpdateExisting(index, request, actor, now, loaded) ==
    IF ~loaded.result.ok
    THEN /\ canvas_event_log' =
               << CanvasBlockLifecycle("update", actor, "requested",
                      Some(canvas_blocks[index].state.block_id),
                      Some("template_id=" \o request.template_id)),
                  CanvasBlockLifecycle("update", actor, "failed",
                      Some(canvas_blocks[index].state.block_id),
                      Some(to_string(loaded.result.error))) >>
         /\ canvas_blocks' =
               [canvas_blocks EXCEPT ![index].ui_runtime = loaded.ui_runtime]
         /\ UNCHANGED << active_block_id, block_nonce, selected_template,
                         active_intent, current_session, clock >>
    ELSE /\ canvas_event_log' =
               << CanvasBlockLifecycle("update", actor, "requested",
                      Some(canvas_blocks[index].state.block_id),
                      Some("template_id=" \o request.template_id)),
                  CanvasBlockLifecycle("update", actor, "succeeded",
                      Some(canvas_blocks[index].state.block_id), None) >>
         /\ active_block_id' = Some(canvas_blocks[index].state.block_id)
         /\ canvas_blocks' =
               [canvas_blocks EXCEPT
                  ![index] = update_block(@, request, loaded.ui_runtime, now)]
         /\ sync_active_selection_context(canvas_blocks', active_block_id')
         /\ persist_current_session(canvas_blocks', active_block_id')
         /\ clock' = now
         /\ UNCHANGED block_nonce

\* The Open branch; `loaded` is what load_schema_value made of a new runtime.
OpenNew(request, actor, now, loaded) ==
    IF ~loaded.result.ok
    THEN /\ canvas_event_log' =
               << CanvasBlockLifecycle("open", actor, "requested", None,
                      Some("template_id=" \o request.template_id)),
                  CanvasBlockLifecycle("open", actor, "failed", None,
                      Some(to_string(loaded.result.error))) >>
         /\ UNCHANGED << canvas_blocks, active_block_id, block_nonce,
                         selected_template, active_intent, current_session,
                         clock >>
    ELSE /\ canvas_event_log' =
               << CanvasBlockLifecycle("open", actor, "requested", None,
                      Some("template_id=" \o request.template_id)),
                  CanvasBlockLifecycle("open", actor, "succeeded",
                      Some(next_block_id(block_nonce).block_id),
                      Some("template_id=" \o request.template_id)) >>
         /\ block_nonce' = next_block_id(block_nonce).block_nonce
         /\ canvas_blocks' =
               Append(canvas_blocks,
                      new_block(next_block_id(block_nonce).block_id, request,
                                loaded.ui_runtime, now))
         /\ active_block_id' = Some(next_block_id(block_nonce).block_id)
         /\ sync_active_selection_context(canvas_blocks', active_block_id')
         /\ persist_current_session(canvas_blocks', active_block_id')
         /\ clock' = now

\* The request that found its target.
apply_to_target(target, request, actor, now) ==
    CASE target.type = "Rejected" ->
            /\ canvas_event_log' = << target.event >>
            /\ UNCHANGED << canvas_blocks, active_block_id, block_nonce,
                            selected_template, active_intent, current_session,
                            clock >>
      [] target.type = "Existing" ->
            UpdateExisting(target.index, request, actor, now,
                load_schema_value(canvas_blocks[target.index].ui_runtime,
                                  request.schema))
      [] target.type = "OpenNew" ->
            OpenNew(request, actor, now,
                    load_schema_value(NewRuntime, request.schema))

\* BrownieApp::apply_canvas_block_from_schema; `request` holds its
\* arguments, `now` is what now_millis returns.
apply_canvas_block_from_schema(request, actor, now) ==
    /\ apply_to_target(update_target(canvas_blocks, active_block_id, request, actor),
                       request, actor, now)
    /\ UNCHANGED << target_resolution, schemaVars, turnVars, catalogVars >>

\* BrownieApp::focus_block.
focus_block(block_id, actor, now) ==
    /\ IF ~apply_focus_transition(canvas_blocks, active_block_id, block_id, now).result
       THEN /\ canvas_event_log' =
                  << CanvasBlockLifecycle("focus", actor, "requested",
                         Some(block_id), None),
                     CanvasBlockLifecycle("focus", actor, "failed",
                         Some(block_id), Some("block not found")) >>
            /\ UNCHANGED << canvas_blocks, active_block_id, selected_template,
                            active_intent, current_session >>
       ELSE /\ canvas_blocks' =
                  apply_focus_transition(canvas_blocks, active_block_id,
                                         block_id, now).blocks
            /\ active_block_id' =
                  apply_focus_transition(canvas_blocks, active_block_id,
                                         block_id, now).active_block_id
            /\ sync_active_selection_context(canvas_blocks', active_block_id')
            /\ persist_current_session(canvas_blocks', active_block_id')
            /\ canvas_event_log' =
                  << CanvasBlockLifecycle("focus", actor, "requested",
                         Some(block_id), None),
                     CanvasBlockLifecycle("focus", actor, "succeeded",
                         Some(block_id), None) >>
    /\ clock' = now
    /\ UNCHANGED << block_nonce, target_resolution, schemaVars, turnVars, catalogVars >>


\* BrownieApp::toggle_minimize_block; it does not call
\* sync_active_selection_context.
toggle_minimize_block(block_id, actor, now) ==
    /\ IF apply_toggle_minimize_transition(canvas_blocks, block_id, now).result = None
       THEN /\ canvas_event_log' =
                  << CanvasBlockLifecycle("minimize", actor, "requested",
                         Some(block_id), None),
                     CanvasBlockLifecycle("minimize", actor, "failed",
                         Some(block_id), Some("block not found")) >>
            /\ UNCHANGED << canvas_blocks, current_session >>
       ELSE /\ canvas_blocks' =
                  apply_toggle_minimize_transition(canvas_blocks, block_id, now).blocks
            /\ persist_current_session(canvas_blocks', active_block_id)
            /\ canvas_event_log' =
                  << CanvasBlockLifecycle("minimize", actor, "requested",
                         Some(block_id), None),
                     CanvasBlockLifecycle("minimize", actor, "succeeded",
                         Some(block_id),
                         Some(IF Unwrap(apply_toggle_minimize_transition(
                                            canvas_blocks, block_id, now).result)
                              THEN "minimized" ELSE "expanded")) >>
    /\ clock' = now
    /\ UNCHANGED << active_block_id, block_nonce, selected_template,
                    active_intent, target_resolution, schemaVars, turnVars, catalogVars >>

\* BrownieApp::close_block.
close_block(block_id, actor) ==
    /\ IF ~apply_close_transition(canvas_blocks, active_block_id, block_id).result
       THEN /\ canvas_event_log' =
                  << CanvasBlockLifecycle("close", actor, "requested",
                         Some(block_id), None),
                     CanvasBlockLifecycle("close", actor, "failed",
                         Some(block_id), Some("block not found")) >>
            /\ UNCHANGED << canvas_blocks, active_block_id, selected_template,
                            active_intent, current_session >>
       ELSE /\ canvas_blocks' =
                  apply_close_transition(canvas_blocks, active_block_id,
                                         block_id).blocks
            /\ active_block_id' =
                  apply_close_transition(canvas_blocks, active_block_id,
                                         block_id).active_block_id
            /\ sync_active_selection_context(canvas_blocks', active_block_id')
            /\ persist_current_session(canvas_blocks', active_block_id')
            /\ canvas_event_log' =
                  << CanvasBlockLifecycle("close", actor, "requested",
                         Some(block_id), None),
                     CanvasBlockLifecycle("close", actor, "succeeded",
                         Some(block_id), None) >>
    /\ UNCHANGED << block_nonce, clock, target_resolution, schemaVars, turnVars, catalogVars >>

\* One block of a frame of render_right_panel (app.rs 1456-1468): a block
\* that is not minimized is rendered and the events its runtime holds
\* beyond synced_event_count are collected.  `clicked` is the button of the
\* block the user clicks in this frame, if any.
frame_block(block, clicked) ==
    IF block.state.minimized THEN block
    ELSE [block EXCEPT
            !.ui_runtime = render_canvas(@, clicked),
            !.synced_event_count =
                IF @ < Len(render_canvas(block.ui_runtime, clicked).event_log)
                THEN Len(render_canvas(block.ui_runtime, clicked).event_log)
                ELSE @]

frame_events(block, clicked) ==
    IF block.state.minimized
       \/ ~(block.synced_event_count
              < Len(render_canvas(block.ui_runtime, clicked).event_log))
    THEN << >>
    ELSE SubSeq(render_canvas(block.ui_runtime, clicked).event_log,
                block.synced_event_count + 1,
                Len(render_canvas(block.ui_runtime, clicked).event_log))

click_on(click, index) ==
    IF click # None /\ Unwrap(click).index = index
    THEN Some(Unwrap(click).button) ELSE None

\* The canvas part of BrownieApp::render_right_panel, one frame: the new
\* events go to the canvas event log and the session is persisted when
\* there are any.
render_right_panel(click) ==
    /\ canvas_blocks' =
          [i \in DOMAIN canvas_blocks |->
              frame_block(canvas_blocks[i], click_on(click, i))]
    /\ IF Concat([i \in DOMAIN canvas_blocks |->
                     frame_events(canvas_blocks[i], click_on(click, i))]) = << >>
       THEN UNCHANGED << canvas_event_log, current_session >>
       ELSE /\ canvas_event_log' =
                  Concat([i \in DOMAIN canvas_blocks |->
                             frame_events(canvas_blocks[i], click_on(click, i))])
            /\ persist_current_session(canvas_blocks', active_block_id)
    /\ UNCHANGED << active_block_id, block_nonce, selected_template,
                    active_intent, clock, target_resolution, schemaVars, turnVars,
                    catalogVars >>


(***************************************************************************)
(* Specification CanvasSpec: the canvas of a new BrownieApp under render   *)
(* requests, focus, minimize and close clicks and frames.                  *)
(***************************************************************************)
MaxNonce == 2           \* block ids allocated in a run
MaxRuntimeEvents == 1   \* events in the event logs of the runtimes of a canvas

ReviewField == [id |-> "decision", label |-> "Decision", kind |-> "text",
                options |-> << >>, default |-> JsonString("approve")]

\* A form under a markdown, and a button with its output contract.
ReviewSchema ==
    SchemaValue(JsonNumber(1),
                << [component_id |-> "approve_btn", event_id |-> "approved"] >>,
                << RawComponent("markdown", "intro", Some("Review"), None, << >>,
                       << RawComponent("form", "review_form", None, None,
                                       << ReviewField >>, << >>) >>),
                   RawComponent("button", "approve_btn", None, Some("Approve"),
                                << >>, << >>) >>)

PlanSchema ==
    SchemaValue(JsonNumber(1), << >>,
                << RawComponent("markdown", "summary", Some("Plan"), None,
                                << >>, << >>) >>)

\* A button without output contract: validation fails.
BrokenSchema ==
    SchemaValue(JsonNumber(1), << >>,
                << RawComponent("button", "approve_btn", None, Some("Approve"),
                                << >>, << >>) >>)

\* What the catalog renders: template t1 with the review schema or with a
\* broken revision of it, template t2 with the plan schema.
RenderPayloads ==
    { [template_id |-> "t1", intent |-> UiIntent("review", { }, { }),
       title |-> "Review", provider_id |-> "builtin-default",
       provider_kind |-> "builtin", schema |-> ReviewSchema],
      [template_id |-> "t1", intent |-> UiIntent("review", { }, { }),
       title |-> "Review", provider_id |-> "builtin-default",
       provider_kind |-> "builtin", schema |-> BrokenSchema],
      [template_id |-> "t2", intent |-> UiIntent("plan", { }, { }),
       title |-> "Plan", provider_id |-> "user-local",
       provider_kind |-> "user", schema |-> PlanSchema] }

\* The block ids a click names, those of the open blocks, and the ids a
\* request names: one of these or one that no block has.
OpenBlockIds == { canvas_blocks[i].state.block_id : i \in DOMAIN canvas_blocks }
MissingBlockId == "block-0"
NamedBlockIds == OpenBlockIds \cup { MissingBlockId }

\* CanvasRenderRequest: the arguments of apply_canvas_block_from_schema.
CanvasRenderRequest(payload, target) ==
    [intent |-> payload.intent, template_id |-> payload.template_id,
     title |-> payload.title, provider_id |-> payload.provider_id,
     provider_kind |-> payload.provider_kind, schema |-> payload.schema,
     target_block_id |-> target]

RenderRequests ==
    { CanvasRenderRequest(payload, target) :
        payload \in RenderPayloads,
        target \in { None } \cup { Some(id) : id \in NamedBlockIds } }

\* What now_millis can return: the clock does not run backwards.  The
\* handlers of a run fall in one millisecond.
CanvasTimes == { 777 }
Now == { t \in CanvasTimes : t >= clock }

RECURSIVE runtime_events(_)
runtime_events(blocks) ==
    IF blocks = << >> THEN 0
    ELSE Len(Head(blocks).ui_runtime.event_log) + runtime_events(Tail(blocks))

\* The buttons a frame can click: those of the rendered blocks, while the
\* runtimes have room for another event.
Clicks ==
    UNION { { Some([index |-> i, button |-> b]) :
                b \in DOMAIN buttons_of(
                         Unwrap(canvas_blocks[i].ui_runtime.validated_schema).components) } :
            i \in { j \in DOMAIN canvas_blocks :
                      /\ ~canvas_blocks[j].state.minimized
                      /\ canvas_blocks[j].ui_runtime.runtime_error = None
                      /\ canvas_blocks[j].ui_runtime.validated_schema # None
                      /\ runtime_events(canvas_blocks) < MaxRuntimeEvents } }

CanvasInit ==
    /\ CanvasIdle
    /\ SchemaIdle
    /\ TurnIdle
    /\ CatalogIdle

\* The history of a step that may have opened a block: the ids of the
\* blocks it leaves have been handed out.
HandedOut ==
    allocated_ids' =
        allocated_ids
        \cup { canvas_blocks'[i].state.block_id : i \in DOMAIN canvas_blocks' }

RenderRequest ==
    \E request \in RenderRequests : \E now \in Now :
        /\ update_target(canvas_blocks, active_block_id, request, "assistant").type
             = "OpenNew" => block_nonce < MaxNonce
        /\ apply_canvas_block_from_schema(request, "assistant", now)
        /\ HandedOut

Focus ==
    \E block_id \in OpenBlockIds : \E now \in Now :
        /\ focus_block(block_id, "user", now)
        /\ UNCHANGED allocated_ids

ToggleMinimize ==
    \E block_id \in OpenBlockIds : \E now \in Now :
        /\ toggle_minimize_block(block_id, "user", now)
        /\ UNCHANGED allocated_ids

Close ==
    \E block_id \in OpenBlockIds :
        /\ close_block(block_id, "user")
        /\ UNCHANGED allocated_ids

Frame ==
    \E click \in { None } \cup Clicks :
        /\ render_right_panel(click)
        /\ UNCHANGED allocated_ids

CanvasNext ==
    \/ RenderRequest
    \/ Focus
    \/ ToggleMinimize
    \/ Close
    \/ Frame

CanvasSpec == CanvasInit /\ [][CanvasNext]_vars


(***************************************************************************)
(* app.rs: BrownieApp::restore_canvas_workspace.                           *)
(***************************************************************************)
\* A restore_form_state that keeps what the runtime holds.
restore_form_state_keeping(runtime, state) == runtime
\* UiRuntime::restore_form_state.
restore_form_state(runtime, state) == [runtime EXCEPT !.form_state = state]

\* The block restored from a persisted CanvasBlockState; `loaded` is what
\* load_schema_value made of a new runtime (app.rs 389-408).
restored_block(state, loaded, touched) ==
    IF ~loaded.result.ok
    THEN CanvasBlock(state, loaded.ui_runtime, 0, touched)
    ELSE CanvasBlock(state, restore_form_state(loaded.ui_runtime, state.form_state),
                     Len(loaded.ui_runtime.event_log), touched)

restored_blocks(workspace, touched) ==
    [i \in DOMAIN workspace.blocks |->
        restored_block(workspace.blocks[i],
                       load_schema_value(NewRuntime, workspace.blocks[i].schema),
                       touched)]

\* The active id of the workspace when it names a restored block, the
\* first block otherwise (app.rs 410-415).
restored_active(blocks, active) ==
    IF active_block_index(blocks, active) # None THEN active
    ELSE IF blocks = << >> THEN None
    ELSE Some(blocks[1].state.block_id)

\* strip_prefix("block-") and parse::<u64> on a block id: the number the id
\* ends in, None for any other string.
block_number(block_id) ==
    first({ n \in 0..99 : block_id = "block-" \o ToString(n) })

\* The highest number of a block id, 0 without one (app.rs 417-424).
highest_nonce(blocks) ==
    IF { i \in DOMAIN blocks : block_number(blocks[i].state.block_id) # None } = { }
    THEN 0
    ELSE CHOOSE n \in { Unwrap(block_number(blocks[i].state.block_id)) :
                          i \in { j \in DOMAIN blocks :
                                    block_number(blocks[j].state.block_id) # None } } :
             \A i \in DOMAIN blocks :
                block_number(blocks[i].state.block_id) # None
                  => Unwrap(block_number(blocks[i].state.block_id)) <= n

\* What open_session leaves of a new BrownieApp when the session it loads
\* holds `workspace`: restore_canvas_workspace, and the session is current.
Restored(workspace, touched) ==
    /\ canvas_blocks = restored_blocks(workspace, touched)
    /\ active_block_id = restored_active(canvas_blocks, workspace.active_block_id)
    /\ block_nonce = highest_nonce(canvas_blocks)
    /\ canvas_event_log = << >>
    /\ selected_template =
          IF active_block_index(canvas_blocks, active_block_id) = None THEN None
          ELSE Some(TemplateSelectionContext(
                   canvas_blocks[Unwrap(active_block_index(canvas_blocks,
                                                            active_block_id))].state))
    /\ active_intent =
          IF active_block_index(canvas_blocks, active_block_id) = None THEN None
          ELSE Some(canvas_blocks[Unwrap(active_block_index(canvas_blocks,
                                                             active_block_id))]
                      .state.intent)
    /\ current_session = Some([canvas_workspace |-> workspace])
    /\ clock = touched


(***************************************************************************)
(* Specification WorkspaceSpec: a restored workspace of up to              *)
(* MaxTargetBlocks blocks under focus, minimize and close clicks, on the   *)
(* blocks it holds and on ids it does not hold.                            *)
(***************************************************************************)
\* schema_version is a string: deserialization fails.
MalformedSchema == SchemaValue(JsonString("not-a-number"), << >>, << >>)

\* The persisted blocks, one for each block id.
PersistedBlock(block_id) ==
    CanvasBlockState(block_id,
                     IF block_id \in { "block-1", "block-10" } THEN "t1" ELSE "t2",
                     "Title", "builtin-default", "builtin",
                     IF block_id = "block-10" THEN MalformedSchema ELSE EmptySchema,
                     UiIntent("review", { }, { }),
                     block_id = "block-11", << >>)

\* The lists of exactly n persisted blocks, no two with one block id.
RECURSIVE PersistedBlockLists(_)
PersistedBlockLists(n) ==
    IF n = 0 THEN { << >> }
    ELSE UNION { { Append(blocks, PersistedBlock(id)) :
                     id \in TargetBlockIds
                             \ { blocks[i].block_id : i \in DOMAIN blocks } } :
                 blocks \in PersistedBlockLists(n - 1) }

\* A persisted workspace names one of its blocks as active, or none.
Workspaces ==
    UNION { { CanvasWorkspaceState(blocks, active) :
                active \in { None } \cup { Some(blocks[i].block_id) : i \in DOMAIN blocks } } :
            blocks \in UNION { PersistedBlockLists(n) : n \in 0..MaxTargetBlocks } }

WorkspaceInit ==
    /\ \E workspace \in Workspaces : \E touched \in CanvasTimes :
          Restored(workspace, touched)
    /\ allocated_ids = OpenBlockIds
    /\ target_resolution = None
    /\ SchemaIdle
    /\ TurnIdle
    /\ CatalogIdle

CloseClick ==
    \E block_id \in TargetBlockIds :
        /\ close_block(block_id, "user")
        /\ UNCHANGED allocated_ids

FocusClick ==
    \E block_id \in TargetBlockIds : \E now \in Now :
        /\ focus_block(block_id, "user", now)
        /\ UNCHANGED allocated_ids

MinimizeClick ==
    \E block_id \in TargetBlockIds : \E now \in Now :
        /\ toggle_minimize_block(block_id, "user", now)
        /\ UNCHANGED allocated_ids

WorkspaceNext ==
    \/ FocusClick
    \/ MinimizeClick
    \/ CloseClick

WorkspaceSpec == WorkspaceInit /\ [][WorkspaceNext]_vars


(***************************************************************************)
(* Specification RequestSpec: the first handler to run on a restored       *)
(* workspace, a render request or a click.                                 *)
(***************************************************************************)
Arrival ==
    /\ canvas_event_log = << >>
    /\ \/ RenderRequest
       \/ FocusClick
       \/ MinimizeClick
       \/ CloseClick

RequestNext == Arrival

RequestSpec == WorkspaceInit /\ [][RequestNext]_vars


(***************************************************************************)
(* Specification SessionSpec: one session from its creation, under render  *)
(* requests, close clicks and the reopening of the session from the store. *)
(***************************************************************************)
\* BrownieApp::restore_canvas_workspace as a step of the running app.
restore_canvas_workspace(workspace, touched) ==
    /\ canvas_blocks' = restored_blocks(workspace, touched)
    /\ active_block_id' = restored_active(canvas_blocks', workspace.active_block_id)
    /\ block_nonce' = highest_nonce(canvas_blocks')
    /\ canvas_event_log' = << >>
    /\ sync_active_selection_context(canvas_blocks', active_block_id')
    /\ clock' = touched

\* BrownieApp::open_session on the id of the current session: store::load_one
\* returns the session as persist_current_session saved it last.
open_session(touched) ==
    /\ current_session # None
    /\ restore_canvas_workspace(Unwrap(current_session).canvas_workspace, touched)
    /\ current_session' = current_session
    /\ is_streaming' = FALSE
    /\ in_progress_assistant' = ""
    /\ awaiting_assistant_turn' = FALSE
    /\ pending_canvas_renders' = << >>
    /\ UNCHANGED << target_resolution, schemaVars, catalogVars >>

\* AppEvent::SessionCreated on a new BrownieApp: the session holds the
\* default CanvasWorkspaceState.
SessionInit ==
    /\ canvas_blocks = << >>
    /\ active_block_id = None
    /\ block_nonce = 0
    /\ canvas_event_log = << >>
    /\ selected_template = None
    /\ active_intent = None
    /\ current_session = Some([canvas_workspace |-> CanvasWorkspaceState(<< >>, None)])
    /\ clock = 0
    /\ target_resolution = None
    /\ allocated_ids = { }
    /\ SchemaIdle
    /\ TurnIdle
    /\ CatalogIdle

Reopen ==
    \E touched \in Now :
        /\ open_session(touched)
        /\ UNCHANGED allocated_ids

SessionNext ==
    \/ RenderRequest
    \/ Close
    \/ Reopen

SessionSpec == SessionInit /\ [][SessionNext]_vars


(***************************************************************************)
(* Specification RuntimeSpec: one UiRuntime, constructed with              *)
(* UiRuntime::new and then loaded, rendered and restored as the tests of   *)
(* runtime.rs and the canvas drive it.  The runtime is the one of the only *)
(* block of the canvas; the rest of the application stays idle.            *)
(***************************************************************************)
MaxRuntimeLog == 3   \* events in the event log of the runtime

SurveyField == [id |-> "agree", label |-> "Agree", kind |-> "checkbox",
                options |-> << >>, default |-> JsonBool(TRUE)]

\* A form with a checkbox.
SurveySchema ==
    SchemaValue(JsonNumber(1), << >>,
                << RawComponent("form", "survey_form", None, None,
                                << SurveyField >>, << >>) >>)

\* What the runtime is asked to load: two schemas with a form, one without,
\* one that fails validation and one that fails to deserialize.
LoadSchemas ==
    { ReviewSchema, SurveySchema, PlanSchema, BrokenSchema, MalformedSchema }

\* What the user commits in a field of a kind.
FieldInputs(kind) ==
    IF kind = "text" THEN { [kind |-> "text", value |-> "reject"] }
    ELSE IF kind = "checkbox" THEN { [kind |-> "checkbox", value |-> FALSE] }
    ELSE { }

\* The form states a persisted block brings back.
RestoredFormStates ==
    { << >>,
      [key \in { "review_form:decision" } |-> [kind |-> "text", value |-> "reject"]],
      [key \in { "review_form:decision" } |-> [kind |-> "checkbox", value |-> TRUE]] }

TheRuntime == canvas_blocks[1].ui_runtime

\* The runtime draws its components: it holds a schema and no error.
Renders(runtime) ==
    runtime.runtime_error = None /\ runtime.validated_schema # None

\* The runtime of the block becomes `runtime`; nothing else changes.
RuntimeBecomes(runtime) ==
    /\ canvas_blocks' = [canvas_blocks EXCEPT ![1].ui_runtime = runtime]
    /\ UNCHANGED << active_block_id, block_nonce, canvas_event_log,
                    selected_template, active_intent, current_session, clock,
                    target_resolution, allocated_ids, schemaVars, turnVars, catalogVars >>

\* ComponentRegistry::render_component over the form fields of a frame in
\* which the user commits nothing.
RECURSIVE render_form_fields(_, _)
render_form_fields(runtime, fields) ==
    IF fields = << >> THEN runtime
    ELSE render_form_fields(
             render_form_field(runtime, Head(fields).form_id, Head(fields).field,
                               None),
             Tail(fields))

\* The block of a runtime that UiRuntime::new has just built.
RuntimeBlock ==
    /\ canvas_blocks =
          << CanvasBlock(CanvasBlockState("block-1", "t1", "Review",
                                          "builtin-default", "builtin",
                                          ReviewSchema,
                                          UiIntent("review", { }, { }), FALSE,
                                          << >>),
                         NewRuntime, 0, 0) >>
    /\ active_block_id = Some("block-1")
    /\ block_nonce = 1
    /\ canvas_event_log = << >>
    /\ selected_template = None
    /\ active_intent = None
    /\ current_session = None
    /\ clock = 0
    /\ target_resolution = None
    /\ allocated_ids = { "block-1" }

RuntimeInit ==
    /\ RuntimeBlock
    /\ SchemaIdle
    /\ TurnIdle
    /\ CatalogIdle

Load ==
    \E raw_schema \in LoadSchemas :
        RuntimeBecomes(load_schema_value(TheRuntime, raw_schema).ui_runtime)

Click ==
    /\ Renders(TheRuntime)
    /\ Len(TheRuntime.event_log) < MaxRuntimeLog
    /\ \E b \in DOMAIN buttons_of(Unwrap(TheRuntime.validated_schema).components) :
          RuntimeBecomes(render_canvas(TheRuntime, Some(b)))

Commit ==
    /\ Renders(TheRuntime)
    /\ Len(TheRuntime.event_log) < MaxRuntimeLog
    /\ \E f \in DOMAIN form_fields(Unwrap(TheRuntime.validated_schema).components) :
          \E input \in FieldInputs(
                  form_fields(Unwrap(TheRuntime.validated_schema).components)[f].field.kind) :
             RuntimeBecomes(
                 render_form_field(
                     TheRuntime,
                     form_fields(Unwrap(TheRuntime.validated_schema).components)[f].form_id,
                     form_fields(Unwrap(TheRuntime.validated_schema).components)[f].field,
                     Some(input)))

Redraw ==
    /\ Renders(TheRuntime)
    /\ RuntimeBecomes(
           render_form_fields(TheRuntime,
               form_fields(Unwrap(TheRuntime.validated_schema).components)))

RestoreForm ==
    \E state \in RestoredFormStates :
        RuntimeBecomes(restore_form_state(TheRuntime, state))

RuntimeNext ==
    \/ Load
    \/ Click
    \/ Commit
    \/ Redraw
    \/ RestoreForm

RuntimeSpec == RuntimeInit /\ [][RuntimeNext]_vars


(***************************************************************************)
(* Specification ReplaySpec: resolve calls on a CatalogManager next to the *)
(* interactions with a runtime, in any order.                              *)
(***************************************************************************)
\* Two catalogs: one template in every tier, and a user tier with two
\* candidates above a builtin one.
ReplayProviderLists ==
    { << [source |-> Sources[1],
          documents |-> << TemplateDocument("t1", "review", { }, { }) >>],
         [source |-> Sources[2],
          documents |-> << TemplateDocument("t2", "review ", Operations,
                                            { "security" }) >>],
         [source |-> Sources[3],
          documents |-> << TemplateDocument("t2", "plan", Operations, { }) >>] >>,
      << [source |-> Sources[1], documents |-> << >>],
         [source |-> Sources[2],
          documents |-> << TemplateDocument("t2", "review ", Operations,
                                            { "security" }),
                           TemplateDocument("t1", "review", { }, { }) >>],
         [source |-> Sources[3],
          documents |-> << TemplateDocument("t1", "review", { }, { }) >>] >> }

ReplayInit ==
    /\ RuntimeBlock
    /\ SchemaIdle
    /\ TurnIdle
    /\ providers \in ReplayProviderLists
    /\ org_enabled \in BOOLEAN
    /\ Holds(reload(providers))
    /\ resolution = None
    /\ mutation = None

ReplayNext ==
    \/ Resolve
    \/ Load
    \/ Click
    \/ Commit
    \/ Redraw
    \/ RestoreForm

ReplaySpec == ReplayInit /\ [][ReplayNext]_vars


(***************************************************************************)
(* Specification ScoreSpec: resolve calls with intents that were not built *)
(* by UiIntent::new (the fields of UiIntent are public and deserialized),  *)
(* so that their lists may repeat a term.                                  *)
(***************************************************************************)
MaxTerms == 2    \* entries of the operations and of the tags of an intent

\* The lists over `terms` of at most MaxTerms entries.
TermLists(terms) == UNION { [1..n -> terms] : n \in 0..MaxTerms }

RawIntents ==
    { [primary |-> primary, operations |-> operations, tags |-> tags] :
        primary \in { "review", "plan" },
        operations \in TermLists(Operations),
        tags \in TermLists({ "security" }) }

ScoreInit ==
    /\ providers \in ReplayProviderLists
    /\ org_enabled \in BOOLEAN
    /\ Holds(reload(providers))
    /\ resolution = None
    /\ mutation = None
    /\ SchemaIdle
    /\ TurnIdle
    /\ CanvasIdle

Score ==
    \E intent \in RawIntents :
        /\ resolution' = Some(resolve_listed(templates, org_enabled, intent))
        /\ UNCHANGED << providers, templates, load_diagnostics, org_enabled,
                        mutation, schemaVars, turnVars, canvasVars >>

ScoreNext == Score

ScoreSpec == ScoreInit /\ [][ScoreNext]_vars


(***************************************************************************)
(* Close, Update and Open as the canvas shows them.                        *)
(***************************************************************************)
Last(s) == s[Len(s)]

\* The list without its k-th element.
Without(s, k) == SubSeq(s, 1, k - 1) \o SubSeq(s, k + 1, Len(s))

\* The handler recorded `status` for `action` last.
Recorded(log, action, status) ==
    /\ log # << >>
    /\ Last(log).event = "canvas_block_lifecycle"
    /\ Last(log).action = action
    /\ Last(log).status = status

\* C8: closing a block removes exactly the block with that id and keeps the
\* others in their order; the active id becomes the id of the last
\* remaining block (None without one) if the closed block was active and
\* stays otherwise; closing an id no block has fails and leaves the block
\* list and the active id alone.
CloseEffect ==
    [][\A block_id \in TargetBlockIds :
          close_block(block_id, "user") =>
             IF \E k \in DOMAIN canvas_blocks :
                   canvas_blocks[k].state.block_id = block_id
             THEN /\ \E k \in DOMAIN canvas_blocks :
                        /\ canvas_blocks[k].state.block_id = block_id
                        /\ canvas_blocks' = Without(canvas_blocks, k)
                  /\ active_block_id' =
                        IF active_block_id # Some(block_id) THEN active_block_id
                        ELSE IF canvas_blocks' = << >> THEN None
                        ELSE Some(Last(canvas_blocks').state.block_id)
                  /\ Recorded(canvas_event_log', "close", "succeeded")
             ELSE /\ canvas_blocks' = canvas_blocks
                  /\ active_block_id' = active_block_id
                  /\ Recorded(canvas_event_log', "close", "failed")]_vars

\* A close that succeeded and left two blocks, the last of them active and
\* the first one not.
CloseEffectWitness ==
    /\ Recorded(canvas_event_log, "close", "succeeded")
    /\ Len(canvas_blocks) = 2
    /\ \A k \in DOMAIN canvas_blocks :
          canvas_blocks[k].state.block_id # Unwrap(Last(canvas_event_log).block_id)
    /\ active_block_id = Some(canvas_blocks[2].state.block_id)
    /\ Unwrap(current_session).canvas_workspace.active_block_id = active_block_id


\* The handler recorded first that `action` was requested for the template.
Requested(log, action, template) ==
    /\ log # << >>
    /\ log[1].event = "canvas_block_lifecycle"
    /\ log[1].action = action
    /\ log[1].status = "requested"
    /\ log[1].message = Some("template_id=" \o template)

\* The schemas of the payloads that load_schema_value accepts.
LoadableSchemas ==
    { payload.schema :
        payload \in { p \in RenderPayloads :
                        load_schema_value(NewRuntime, p.schema).result.ok } }

\* The blocks a render request is for: the block its explicit id names or,
\* without one, the block its template resolves to.
TargetsOf(request) ==
    IF request.target_block_id # None
    THEN { k \in DOMAIN canvas_blocks :
             canvas_blocks[k].state.block_id = Unwrap(request.target_block_id) }
    ELSE { k \in DOMAIN canvas_blocks :
             resolve_block_target_for_template(canvas_blocks, active_block_id,
                 request.template_id) = Existing(k) }

\* What an update of block k by `request` at `now` leaves.
UpdateOf(request, k, now) ==
    (/\ k \in TargetsOf(request)
     /\ apply_canvas_block_from_schema(request, "assistant", now))
    =>
    /\ Len(canvas_blocks') = Len(canvas_blocks)
    /\ canvas_blocks'[k].state.block_id = canvas_blocks[k].state.block_id
    /\ canvas_blocks'[k].state.schema = request.schema
    /\ canvas_blocks'[k].state.title = request.title
    /\ canvas_blocks'[k].state.provider_id = request.provider_id
    /\ canvas_blocks'[k].state.provider_kind = request.provider_kind
    /\ canvas_blocks'[k].state.intent = request.intent
    /\ canvas_blocks'[k].synced_event_count = 0
    /\ active_block_id' = Some(canvas_blocks[k].state.block_id)
    /\ \A j \in DOMAIN canvas_blocks \ { k } :
          canvas_blocks'[j] = canvas_blocks[j]

\* C9: a successful update of an existing block keeps its block_id and its
\* position, replaces its schema, title, provider id, provider kind and
\* intent with those of the request, resets its counter of synced events
\* to 0 and makes it the active block; the number of blocks and every
\* other block stay.
UpdateEffect ==
    [][Recorded(canvas_event_log', "update", "succeeded") =>
          \A payload \in RenderPayloads : \A k \in DOMAIN canvas_blocks :
             (/\ Requested(canvas_event_log', "update", payload.template_id)
              /\ Last(canvas_event_log').block_id
                    = Some(canvas_blocks[k].state.block_id)
              /\ payload.schema \in LoadableSchemas)
             =>
             \A target \in { None, Some(canvas_blocks[k].state.block_id) } :
                \A now \in Now :
                   UpdateOf(CanvasRenderRequest(payload, target), k, now)]_vars

\* An update that succeeded on the first of two blocks: the block of
\* template t1 shows the plan schema, is active, and its counter is back at
\* 0 with an event in its runtime.
UpdateEffectWitness ==
    /\ Recorded(canvas_event_log, "update", "succeeded")
    /\ Len(canvas_blocks) = 2
    /\ Last(canvas_event_log).block_id = Some(canvas_blocks[1].state.block_id)
    /\ canvas_blocks[1].state.template_id = "t1"
    /\ canvas_blocks[1].state.schema = PlanSchema
    /\ canvas_blocks[1].state.title = "Plan"
    /\ canvas_blocks[1].synced_event_count = 0
    /\ Len(canvas_blocks[1].ui_runtime.event_log) = 1
    /\ active_block_id = Some(canvas_blocks[1].state.block_id)

\* The default a form field of a schema document is seeded with.
FieldDefault(field) ==
    CASE field.kind = "text" ->
            [kind |-> "text",
             value |-> IF field.default[1] = "string" THEN field.default[2] ELSE ""]
      [] field.kind = "number" ->
            [kind |-> "number",
             value |-> IF field.default[1] = "number" THEN field.default[2] ELSE 0]
      [] field.kind = "select" ->
            [kind |-> "select",
             value |-> IF field.default[1] = "string" THEN field.default[2]
                       ELSE IF field.options = << >> THEN "" ELSE field.options[1]]
      [] field.kind = "checkbox" ->
            [kind |-> "checkbox",
             value |-> IF field.default[1] = "bool" THEN field.default[2] ELSE FALSE]

\* The form fields of a schema document, at any depth, under their keys.
RECURSIVE FormDefaults(_)
FormDefaults(components) ==
    UNION { (IF components[i].kind = "form"
             THEN { [key |-> components[i].id \o ":" \o components[i].fields[f].id,
                     value |-> FieldDefault(components[i].fields[f])] :
                      f \in DOMAIN components[i].fields }
             ELSE { })
            \cup FormDefaults(components[i].children) :
            i \in DOMAIN components }

\* C10: a render request without explicit block id whose template no block
\* shows and whose schema loads adds exactly one block, at the end of the
\* list, under a newly allocated id, with the requested template_id,
\* minimized = false and form_state seeded with the defaults of the schema;
\* the block becomes the active one and the blocks before it stay.
OpenEffect ==
    [][\A request \in RenderRequests : \A now \in Now :
          (/\ request.target_block_id = None
           /\ \A k \in DOMAIN canvas_blocks :
                 canvas_blocks[k].state.template_id # request.template_id
           /\ Requested(canvas_event_log', "open", request.template_id)
           /\ request.schema \in LoadableSchemas
           /\ apply_canvas_block_from_schema(request, "assistant", now))
          =>
          /\ Len(canvas_blocks') = Len(canvas_blocks) + 1
          /\ SubSeq(canvas_blocks', 1, Len(canvas_blocks)) = canvas_blocks
          /\ \A k \in DOMAIN canvas_blocks :
                canvas_blocks[k].state.block_id # Last(canvas_blocks').state.block_id
          /\ block_nonce' > block_nonce
          /\ Last(canvas_blocks').state.block_id = "block-" \o ToString(block_nonce')
          /\ Last(canvas_blocks').state.template_id = request.template_id
          /\ Last(canvas_blocks').state.minimized = FALSE
          /\ DOMAIN Last(canvas_blocks').state.form_state =
                { d.key : d \in FormDefaults(request.schema.components) }
          /\ \A d \in FormDefaults(request.schema.components) :
                Last(canvas_blocks').state.form_state[d.key] = d.value
          /\ active_block_id' = Some(Last(canvas_blocks').state.block_id)]_vars

\* An open that succeeded behind a block of another template: the new
\* block is the second one, holds the seeded field of the review form and
\* is active.
OpenEffectWitness ==
    /\ Recorded(canvas_event_log, "open", "succeeded")
    /\ Len(canvas_blocks) = 2
    /\ Last(canvas_event_log).block_id = Some(canvas_blocks[2].state.block_id)
    /\ canvas_blocks[2].state.block_id = "block-2"
    /\ canvas_blocks[2].state.template_id = "t1"
    /\ canvas_blocks[2].state.form_state =
          [key \in { "review_form:decision" } |->
              [kind |-> "text", value |-> "approve"]]
    /\ canvas_blocks[1].state.template_id = "t2"
    /\ canvas_blocks[1].state.minimized
    /\ active_block_id = Some("block-2")


(***************************************************************************)
(* Block ids.                                                              *)
(***************************************************************************)
\* The number a block id ends in.
NumberOf(block_id) == Unwrap(block_number(block_id))

\* C11: block ids are unique and monotonic.  No two open blocks share a
\* block_id, and the id an Open hands out is none the session has handed
\* out before, closed blocks included and across a reopening of the
\* session: its number is above the number of every earlier id.
BlockIdsUniqueMonotonic ==
    [][/\ \A i, j \in DOMAIN canvas_blocks' :
             canvas_blocks'[i].state.block_id = canvas_blocks'[j].state.block_id
             => i = j
       /\ Recorded(canvas_event_log', "open", "succeeded") =>
             /\ Unwrap(Last(canvas_event_log').block_id) \notin allocated_ids
             /\ \A id \in allocated_ids :
                   NumberOf(id) < NumberOf(Unwrap(Last(canvas_event_log').block_id))]_vars


(***************************************************************************)
(* The lifecycle events of a handler.                                      *)
(***************************************************************************)
IsLifecycle(entry) == entry.event = "canvas_block_lifecycle"

\* The entries are those of a handler that ran to its outcome: Requested,
\* then Succeeded or Failed with the action and the actor of the request.
RequestedThenOutcome(log) ==
    /\ Len(log) = 2
    /\ IsLifecycle(log[1]) /\ IsLifecycle(log[2])
    /\ log[1].status = "requested"
    /\ log[2].status \in { "succeeded", "failed" }
    /\ log[2].action = log[1].action
    /\ log[2].actor = log[1].actor

\* The entries are those of a render request rejected before it had a
\* target: one Failed Update event.
RejectedOnly(log) ==
    /\ Len(log) = 1
    /\ IsLifecycle(log[1])
    /\ log[1].action = "update"
    /\ log[1].status = "failed"

\* The entries are the runtime events a frame synced.
FrameEvents(log) == \A i \in DOMAIN log : ~IsLifecycle(log[i])

\* C12 as stated: every handler records Requested and then exactly one
\* Succeeded or Failed event with the same action and actor, and no
\* Succeeded or Failed event comes without its Requested event, rejected
\* render requests included.
AuditPairs ==
    FrameEvents(canvas_event_log) \/ RequestedThenOutcome(canvas_event_log)

\* C12: the lifecycle audit trail.  Every handler that reaches a block or
\* opens one records Requested and then exactly one Succeeded or Failed
\* event with the same action and actor; a render request rejected as
\* ambiguous or for an unknown explicit block id records one Failed Update
\* event and no Requested event.
AuditTrail ==
    \/ FrameEvents(canvas_event_log)
    \/ RequestedThenOutcome(canvas_event_log)
    \/ RejectedOnly(canvas_event_log)

\* A focus click on an id no block has: Requested, then Failed.
AuditTrailWitness ==
    /\ RequestedThenOutcome(canvas_event_log)
    /\ canvas_event_log[1].action = "focus"
    /\ canvas_event_log[1].actor = "user"
    /\ canvas_event_log[2].status = "failed"
    /\ Len(canvas_blocks) = 2


(***************************************************************************)
(* Rejected render requests.                                               *)
(***************************************************************************)
\* The blocks of the requested template that were touched last.
Latest(template) ==
    { i \in Showing(template) :
        \A j \in Showing(template) :
           canvas_blocks[j].last_touched_at <= canvas_blocks[i].last_touched_at }

\* The request names a block id that no open block has.
UnknownTarget(request) ==
    /\ request.target_block_id # None
    /\ \A i \in DOMAIN canvas_blocks :
          canvas_blocks[i].state.block_id # Unwrap(request.target_block_id)

\* The request names no block and its template has no single target.
AmbiguousTarget(request) ==
    /\ request.target_block_id = None
    /\ ~ActiveShows(request.template_id)
    /\ Cardinality(Latest(request.template_id)) > 1

\* The ways of listing every id of a set once, separated by ", ".
Listings(ids) ==
    { join(order) :
        order \in { o \in [1..Cardinality(ids) -> ids] :
                      \A a, b \in 1..Cardinality(ids) : o[a] = o[b] => a = b } }

\* C13: a rejected render request changes nothing.  A request whose
\* explicit block id no block has, or whose template resolves to several
\* candidates, records one Failed event, for the ambiguous request with a
\* message that lists every candidate id; no block is opened, modified or
\* closed, active_block_id stays and no block id is consumed.
RejectedChangesNothing ==
    [][\A request \in RenderRequests : \A now \in Now :
          (/\ UnknownTarget(request) \/ AmbiguousTarget(request)
           /\ apply_canvas_block_from_schema(request, "assistant", now))
          =>
          /\ canvas_blocks' = canvas_blocks
          /\ active_block_id' = active_block_id
          /\ block_nonce' = block_nonce
          /\ Len(canvas_event_log') = 1
          /\ IsLifecycle(canvas_event_log'[1])
          /\ canvas_event_log'[1].status = "failed"
          /\ AmbiguousTarget(request) =>
                \E listing \in Listings({ canvas_blocks[i].state.block_id :
                                            i \in Latest(request.template_id) }) :
                   canvas_event_log'[1].message =
                      Some("ambiguous target; specify block_id (candidates: "
                           \o listing \o ")")]_vars

\* An ambiguous request was rejected: neither of the two blocks of template
\* t1 is active, the message names both.
RejectedChangesNothingWitness ==
    /\ RejectedOnly(canvas_event_log)
    /\ canvas_event_log[1].block_id = None
    /\ canvas_event_log[1].message =
          Some("ambiguous target; specify block_id (candidates: block-1, block-10)")
    /\ Len(canvas_blocks) = 3
    /\ ~ActiveShows("t1")
    /\ Cardinality(Showing("t1")) = 2


(***************************************************************************)
(* The load states of a runtime.                                           *)
(***************************************************************************)
\* The step loads `raw_schema` into the runtime.
Loads(raw_schema) ==
    canvas_blocks' =
        [canvas_blocks EXCEPT ![1].ui_runtime =
            load_schema_value(TheRuntime, raw_schema).ui_runtime]

\* C14: a runtime never holds a schema and an error at once; a load leaves
\* exactly one of them; a failed load leaves no schema and an empty
\* form_state; a successful load leaves no error and the form_state of the
\* defaults of the loaded schema alone, whatever the runtime held before.
LoadStates ==
    [][/\ ~(TheRuntime'.validated_schema # None /\ TheRuntime'.runtime_error # None)
       /\ \A raw_schema \in LoadSchemas :
             Loads(raw_schema) =>
                /\ (TheRuntime'.validated_schema = None)
                      # (TheRuntime'.runtime_error = None)
                /\ TheRuntime'.runtime_error # None =>
                      /\ TheRuntime'.validated_schema = None
                      /\ TheRuntime'.form_state = << >>
                /\ TheRuntime'.validated_schema # None =>
                      /\ TheRuntime'.runtime_error = None
                      /\ DOMAIN TheRuntime'.form_state =
                            { d.key : d \in FormDefaults(raw_schema.components) }
                      /\ \A d \in FormDefaults(raw_schema.components) :
                            TheRuntime'.form_state[d.key] = d.value]_vars

\* A runtime that failed to load over an edited form: the error is set,
\* the schema and the form are gone, the events of the form remain.
LoadStatesWitness ==
    /\ Len(canvas_blocks) = 1
    /\ TheRuntime.runtime_error # None
    /\ TheRuntime.validated_schema = None
    /\ TheRuntime.form_state = << >>
    /\ \E i \in DOMAIN TheRuntime.event_log :
          TheRuntime.event_log[i].event = "form_field_committed"


(***************************************************************************)
(* The event log of a runtime.                                             *)
(***************************************************************************)
\* `before` is a prefix of `after`, entry by entry.
IsPrefix(before, after) ==
    /\ Len(before) <= Len(after)
    /\ \A i \in DOMAIN before : after[i] = before[i]

\* C15: every operation on a runtime (a click, a committed field, a redraw,
\* the load of another schema, a restored form state) leaves the entries
\* of its event log where they were, in their order, and adds at most one
\* ButtonClicked or FormFieldCommitted entry behind them; a load and a
\* restored form state add none.
EventLogAppendOnly ==
    [][/\ IsPrefix(TheRuntime.event_log, TheRuntime'.event_log)
       /\ Len(TheRuntime'.event_log) <= Len(TheRuntime.event_log) + 1
       /\ \A i \in DOMAIN TheRuntime'.event_log \ DOMAIN TheRuntime.event_log :
             TheRuntime'.event_log[i].event
                \in { "button_clicked", "form_field_committed" }
       /\ (\/ \E raw_schema \in LoadSchemas : Loads(raw_schema)
           \/ \E state \in RestoredFormStates :
                 TheRuntime' = restore_form_state(TheRuntime, state))
          => TheRuntime'.event_log = TheRuntime.event_log]_vars

\* A full log that outlived a load: a committed field of the review form,
\* then a click, in a runtime that now shows the survey and has recorded a
\* commit of it.
EventLogAppendOnlyWitness ==
    /\ Len(canvas_blocks) = 1
    /\ Len(TheRuntime.event_log) = MaxRuntimeLog
    /\ TheRuntime.event_log[1].event = "form_field_committed"
    /\ TheRuntime.event_log[1].form_id = "review_form"
    /\ TheRuntime.event_log[2].event = "button_clicked"
    /\ TheRuntime.event_log[Len(TheRuntime.event_log)].event = "form_field_committed"
    /\ TheRuntime.event_log[Len(TheRuntime.event_log)].form_id = "survey_form"
    /\ TheRuntime.validated_schema # None
    /\ TheRuntime.form_state = [key \in { "survey_form:agree" } |->
                                   [kind |-> "checkbox", value |-> FALSE]]


(***************************************************************************)
(* Resolution and interaction are repeatable.                              *)
(***************************************************************************)
\* What a new runtime holds as validated_schema once it has loaded a
\* document.
LoadedSchemas ==
    [raw_schema \in LoadSchemas |->
        load_schema_value(NewRuntime, raw_schema).ui_runtime.validated_schema]

\* The runtime shows the document `raw_schema`.
Shows(raw_schema) ==
    /\ Renders(TheRuntime)
    /\ TheRuntime.validated_schema = LoadedSchemas[raw_schema]

\* The buttons of a schema document, a component before its children.
RECURSIVE RawButtons(_)
RawButtons(components) ==
    IF components = << >> THEN << >>
    ELSE (IF Head(components).kind = "button" THEN << Head(components).id >>
          ELSE << >>)
         \o RawButtons(Head(components).children)
         \o RawButtons(Tail(components))

\* The event a click on the button `id` of a document stands for: the
\* button with the event its output contract names.
ClickEvent(raw_schema, id) ==
    [event |-> "button_clicked", component_id |-> id,
     output_event_id |->
        (CHOOSE o \in { raw_schema.outputs[k] : k \in DOMAIN raw_schema.outputs } :
            o.component_id = id).event_id]

LoadedBackwards(provider_list) ==
    [p \in DOMAIN provider_list |->
        [provider_list[p] EXCEPT
            !.documents = [d \in DOMAIN @ |-> @[Len(@) + 1 - d]]]]

\* Template `left` is ranked before `right` for the intent, or with it:
\* the higher score, then the smaller template id, then the smaller
\* provider id.
RankedFirst(left, right, intent) ==
    LET l == score_secondary(intent, left).total
        r == score_secondary(intent, right).total
    IN  \/ l > r
        \/ /\ l = r
           /\ string_index(template_id(left)) < string_index(template_id(right))
        \/ /\ l = r
           /\ template_id(left) = template_id(right)
           /\ string_index(left.source.provider_id)
                 <= string_index(right.source.provider_id)

\* C17: the selected template is ranked first among the templates of its
\* tier that pass the primary gate: it has the highest score, among equal
\* scores the smallest template id, among equal ids the smallest provider
\* id; and the same template is selected when the providers hand their
\* documents over in another order.
TierWinner ==
    (resolution # None /\ Unwrap(resolution).selected # None) =>
        LET result == Unwrap(resolution)
            winner == Unwrap(result.selected)
            intent == result.trace.intent
        IN  /\ \A i \in TierMatches(winner.source.kind, intent) :
                  RankedFirst(winner, templates[i], intent)
            /\ resolve(reload(LoadedBackwards(providers)).templates, org_enabled,
                       intent).selected = result.selected


(***************************************************************************)
(* A resolution without a match.                                           *)
(***************************************************************************)
\* The tiers resolve goes through.
Tiers == IF org_enabled THEN { "org", "user", "builtin" } ELSE { "user", "builtin" }

\* The line that reports why a template of the index is no candidate for
\* the intent.
MismatchLine(template, intent) ==
    template.source.provider_id \o ":" \o template_id(template)
       \o " primary mismatch expected=" \o trim(template.document.match_rules.primary)
       \o " actual=" \o trim(intent.primary)

\* C18: when no tier has a template that passes the primary gate, nothing
\* is selected and no_match_reasons is not empty: it is the one line
\* "catalog index contains no templates" exactly when the index is empty,
\* and otherwise it holds one line for every template of the index, the
\* line of the primary mismatch of that template.
NoMatchReported ==
    resolution # None =>
        LET result == Unwrap(resolution)
            intent == result.trace.intent
            reasons == result.trace.no_match_reasons
        IN  (\A kind \in Tiers : TierMatches(kind, intent) = { }) =>
               /\ result.selected = None
               /\ reasons # << >>
               /\ (reasons = << "catalog index contains no templates" >>)
                     <=> (templates = << >>)
               /\ templates # << >> =>
                     /\ Len(reasons) = Len(templates)
                     /\ \A i \in DOMAIN templates :
                           Cardinality({ k \in DOMAIN reasons :
                                           reasons[k] = MismatchLine(templates[i], intent) })
                           = Cardinality({ j \in DOMAIN templates :
                                             MismatchLine(templates[j], intent)
                                             = MismatchLine(templates[i], intent) })


(***************************************************************************)
(* The candidate gate.                                                     *)
(***************************************************************************)
\* The trace entries of a template of the index.
EntriesOf(template, ranked_candidates) ==
    { k \in DOMAIN ranked_candidates :
        /\ ranked_candidates[k].template_id = template_id(template)
        /\ ranked_candidates[k].provider_id = template.source.provider_id }

\* C19: a template of the index whose trimmed match.primary is the trimmed
\* primary of the intent has a trace entry without a primary mismatch; any
\* other template has a trace entry with score 0 and the primary mismatch
\* as its reason, and is not the selected template.
CandidateGate ==
    resolution # None =>
        LET result == Unwrap(resolution)
            intent == result.trace.intent
            ranked == result.trace.ranked_candidates
        IN  \A i \in DOMAIN templates :
               IF trim(templates[i].document.match_rules.primary) = trim(intent.primary)
               THEN \E k \in EntriesOf(templates[i], ranked) :
                       /\ ranked[k].score = score_secondary(intent, templates[i]).total
                       /\ ranked[k].excluded_reason
                             \in { None,
                                   Some("lower score or tie-break in same tier") }
                                 \cup { Some("lower provider precedence than " \o kind) :
                                           kind \in Tiers }
               ELSE /\ \E k \in EntriesOf(templates[i], ranked) :
                         /\ ranked[k].score = 0
                         /\ ranked[k].excluded_reason =
                               Some("primary mismatch expected="
                                    \o trim(templates[i].document.match_rules.primary)
                                    \o " actual=" \o trim(intent.primary))
                    /\ result.selected # Some(templates[i])


(***************************************************************************)
(* The secondary score.                                                    *)
(***************************************************************************)
\* The terms of a template list that occur in a list of the intent.
Shared(template_terms, intent_list) ==
    { t \in template_terms : \E k \in DOMAIN intent_list : intent_list[k] = t }

\* The two hold the same terms, and at least one.
SameTerms(template_terms, intent_list) ==
    /\ template_terms # { }
    /\ Shared(template_terms, intent_list) = template_terms
    /\ \A k \in DOMAIN intent_list : intent_list[k] \in template_terms

\* A list without the entries that repeat an earlier one.
RECURSIVE WithoutRepeats(_)
WithoutRepeats(list) ==
    IF list = << >> THEN << >>
    ELSE LET front == WithoutRepeats(SubSeq(list, 1, Len(list) - 1))
         IN  IF \E k \in 1..(Len(list) - 1) : list[k] = list[Len(list)]
             THEN front ELSE Append(front, list[Len(list)])

\* C20: every trace candidate that passed the primary gate stands for a
\* template of the index with: score = 10 x the operations of the template
\* that are in the intent + 4 x its tags that are in the intent + 2 when
\* the operations of both are the same and not empty + 1 when the tags of
\* both are the same and not empty; operation_overlap and tag_overlap are
\* the two counts; and the intent with the repeated entries of its lists
\* removed gives the same candidates.
SecondaryScore ==
    resolution # None =>
        LET ranked == Unwrap(resolution).trace.ranked_candidates
            intent == Unwrap(resolution).trace.intent
        IN  /\ \A k \in DOMAIN ranked :
                  (ranked[k].excluded_reason = None
                   \/ ranked[k].excluded_reason
                         = Some("lower score or tie-break in same tier")
                   \/ \E kind \in Tiers :
                         ranked[k].excluded_reason
                           = Some("lower provider precedence than " \o kind))
                  => \E i \in DOMAIN templates :
                        LET rules == templates[i].document.match_rules
                            operations == Cardinality(Shared(rules.operations,
                                                             intent.operations))
                            tags == Cardinality(Shared(rules.tags, intent.tags))
                        IN  /\ template_id(templates[i]) = ranked[k].template_id
                            /\ templates[i].source.provider_id = ranked[k].provider_id
                            /\ trim(rules.primary) = trim(intent.primary)
                            /\ ranked[k].operation_overlap = operations
                            /\ ranked[k].tag_overlap = tags
                            /\ ranked[k].score =
                                  10 * operations + 4 * tags
                                  + (IF SameTerms(rules.operations, intent.operations)
                                     THEN 2 ELSE 0)
                                  + (IF SameTerms(rules.tags, intent.tags)
                                     THEN 1 ELSE 0)
            /\ resolve_listed(templates, org_enabled,
                              [intent EXCEPT
                                 !.operations = WithoutRepeats(@),
                                 !.tags = WithoutRepeats(@)]).trace.ranked_candidates
                  = ranked

\* An intent that names reject twice and security twice, and a candidate
\* with both operations and the security tag: one shared operation, one
\* shared tag and the bonus of the tags.
SecondaryScoreWitness ==
    /\ resolution # None
    /\ Unwrap(resolution).trace.intent.operations = << "reject", "reject" >>
    /\ Unwrap(resolution).trace.intent.tags = << "security", "security" >>
    /\ \E k \in DOMAIN Unwrap(resolution).trace.ranked_candidates :
          /\ Unwrap(resolution).trace.ranked_candidates[k].score = 15
          /\ Unwrap(resolution).trace.ranked_candidates[k].operation_overlap = 1
          /\ Unwrap(resolution).trace.ranked_candidates[k].tag_overlap = 1


(***************************************************************************)
(* What validate_schema returns.                                           *)
(***************************************************************************)
\* The ids, kinds and nesting of a tree, raw or validated, in sibling
\* order.
RECURSIVE Skeleton(_)
Skeleton(components) ==
    [i \in DOMAIN components |->
        [id |-> components[i].id, kind |-> components[i].kind,
         children |-> Skeleton(components[i].children)]]

\* C21: validate_schema returns an error and nothing else, or a
\* ValidatedSchema with the components of the document: the same ids and
\* kinds, nested the same way, in the same order; a document with one
\* invalid component anywhere (over a budget, of an unknown kind, with a
\* repeated actionable id, without a required member or without its output
\* contract) gets the error.
FailClosed ==
    validation # None =>
        LET f == Facts(schema)
            sound == /\ f.count /\ f.depth /\ f.kinds /\ f.distinct
                     /\ f.members /\ f.outputs
        IN  /\ Validated_ok =>
                 /\ sound
                 /\ DOMAIN Unwrap(validation) = { "ok", "value" }
                 /\ Skeleton(Unwrap(validation).value.components)
                       = Skeleton(schema.components)
            /\ ~sound => ~Unwrap(validation).ok
            /\ ~Unwrap(validation).ok => DOMAIN Unwrap(validation) = { "ok", "error" }

\* A document rejected for its last component alone: a markdown without
\* text at depth 4, behind a sibling that is valid, under three valid
\* levels.
FailClosedWitness ==
    /\ Validated_err("MissingRequiredField")
    /\ LET f == Facts(schema)
       IN  /\ f.count /\ f.depth /\ f.kinds /\ f.distinct /\ f.outputs
           /\ Len(f.nodes) = 5
           /\ f.nodes[4].depth = 4
           /\ f.nodes[5].depth = 4
           /\ f.nodes[4].kind = "form"
           /\ f.nodes[5].kind = "markdown"


(***************************************************************************)
(* Specification FormSpec: a document with a form is validated and loaded  *)
(* into a runtime.  The fields of the form take every kind, one that the   *)
(* registry does not allow included, with defaults of every JSON shape;    *)
(* the form sits at the top level, under a markdown, under another form,   *)
(* or beside a component of an unknown kind.                               *)
(***************************************************************************)
MaxFormFields == 2   \* fields of the enumerated form

\* kind, options and default of a field: for every kind a default of its
\* own shape and one of another shape or none.
FieldChoices ==
    { [kind |-> "text", options |-> << >>, default |-> d] :
        d \in { JsonNull, JsonString("x"), JsonNumber(7) } }
    \cup { [kind |-> "number", options |-> << >>, default |-> d] :
             d \in { JsonString("x"), JsonNumber(7) } }
    \cup { [kind |-> "checkbox", options |-> << >>, default |-> d] :
             d \in { JsonNull, JsonBool(TRUE) } }
    \cup { [kind |-> "select", options |-> o, default |-> d] :
             o \in { << >>, << "y", "z" >> },
             d \in { JsonNumber(7), JsonString("x") } }
    \cup { [kind |-> "slider", options |-> << >>, default |-> JsonNull] }

FormField(id, choice) ==
    [id |-> id, label |-> "Label", kind |-> choice.kind,
     options |-> choice.options, default |-> choice.default]

\* The field lists of exactly k fields: the first field is "f" and the
\* second "f" again or "g", both of every choice; the fields behind them
\* are text fields "h" without a default.
RECURSIVE FieldLists(_)
FieldLists(k) ==
    IF k = 0 THEN { << >> }
    ELSE IF k = 1 THEN { << FormField("f", c) >> : c \in FieldChoices }
    ELSE IF k = 2
    THEN { Append(fields, FormField(id, c)) :
             fields \in FieldLists(1), id \in { "f", "g" }, c \in FieldChoices }
    ELSE { Append(fields, FormField("h", [kind |-> "text", options |-> << >>,
                                          default |-> JsonNull])) :
             fields \in FieldLists(k - 1) }

FormOf(id, fields, children) ==
    RawComponent("form", id, None, None, fields, children)

\* Where the form sits in the document.
Placements(form) ==
    { << form >>,
      << Markdown("w", << form >>) >>,
      << FormOf("b", << TextField >>, << form >>) >>,
      << form, Markdown("w", << RawComponent("widget", "x", None, None,
                                              << >>, << >>) >>) >> }

\* The documents: a form "a" of up to n fields in each of its places.
FormInputs(n) ==
    { UiSchema(<< >>, p) :
        p \in UNION { Placements(FormOf("a", fields, << >>)) :
                        fields \in UNION { FieldLists(k) : k \in 0..n } } }

FormInit ==
    /\ schema \in FormInputs(MaxFormFields)
    /\ validation = None
    /\ RuntimeBlock
    /\ CatalogIdle
    /\ TurnIdle

\* The document as the serde_json::Value that load_schema_value is given.
ValueOf(document) ==
    SchemaValue(JsonNumber(document.schema_version), document.outputs,
                document.components)

LoadDocument ==
    RuntimeBecomes(load_schema_value(TheRuntime, ValueOf(schema)).ui_runtime)

FormNext == Validate \/ LoadDocument

FormSpec == FormInit /\ [][FormNext]_vars

\* The forms of a tree, raw or validated, a component before its children.
RECURSIVE FormsOf(_)
FormsOf(components) ==
    IF components = << >> THEN << >>
    ELSE (IF Head(components).kind = "form" THEN << Head(components) >> ELSE << >>)
         \o FormsOf(Head(components).children)
         \o FormsOf(Tail(components))

\* The components of a document of a kind outside the allow-list, and the
\* fields of its forms of a kind outside the allow-list, in document order.
UnknownComponents(s) ==
    SelectSeq(Preorder(s.components, 1),
              LAMBDA n : n.kind \notin { "markdown", "form", "code", "diff", "button" })

UnsupportedFields(form) ==
    SelectSeq(form.fields,
              LAMBDA field : field.kind \notin { "text", "number", "select", "checkbox" })

FormsWithUnsupported(s) ==
    SelectSeq(FormsOf(s.components), LAMBDA form : UnsupportedFields(form) # << >>)

\* C22: a document with a component of a kind outside the allow-list, or
\* with a form field of a kind outside the allow-list, at any depth, is
\* never accepted; when nothing else is wrong with it the error is
\* UnknownComponent for the component, UnsupportedFieldType for the field;
\* an accepted document keeps the kind of every component and of every
\* field, and every field.
UnknownKindsRejected ==
    validation # None =>
        LET result == Unwrap(validation)
            components == UnknownComponents(schema)
            forms == FormsWithUnsupported(schema)
        IN  /\ (components # << >> \/ forms # << >>) => ~result.ok
            /\ (components # << >> /\ forms = << >>) =>
                  result = Err([type |-> "UnknownComponent",
                                component_id |-> components[1].id,
                                kind |-> components[1].kind])
            /\ (components = << >> /\ forms # << >>) =>
                  result = Err([type |-> "UnsupportedFieldType",
                                form_id |-> forms[1].id,
                                field_id |-> UnsupportedFields(forms[1])[1].id,
                                kind |-> UnsupportedFields(forms[1])[1].kind])
            /\ result.ok =>
                  /\ Skeleton(result.value.components) = Skeleton(schema.components)
                  /\ LET raw == FormsOf(schema.components)
                         validated == FormsOf(result.value.components)
                     IN  \A i \in DOMAIN raw :
                            /\ Len(validated[i].fields) = Len(raw[i].fields)
                            /\ \A j \in DOMAIN raw[i].fields :
                                  /\ validated[i].fields[j].kind = raw[i].fields[j].kind
                                  /\ validated[i].fields[j].id = raw[i].fields[j].id

\* A nested form whose second field is of an unsupported kind, behind a
\* supported one, is rejected for that field.
UnknownKindsRejectedWitness ==
    /\ validation # None
    /\ ~Unwrap(validation).ok
    /\ Unwrap(validation).error.type = "UnsupportedFieldType"
    /\ Unwrap(validation).error.field_id = "g"
    /\ schema.components[1].kind = "markdown"
    /\ Len(FormsOf(schema.components)[1].fields) = 2
    /\ FormsOf(schema.components)[1].fields[1].kind = "select"


\* C23: the fields of an accepted document carry a default of their own
\* type: the default of the document when it is a string (text, select), a
\* number (number) or a boolean (checkbox), otherwise "", 0, the first
\* option or "" without options, and false; a document whose kinds are all
\* allowed is accepted whatever its defaults are.
TypedDefaults ==
    validation # None =>
        LET result == Unwrap(validation)
            raw == FormsOf(schema.components)
        IN  /\ (UnknownComponents(schema) = << >> /\ FormsWithUnsupported(schema) = << >>)
                  => result.ok
            /\ result.ok =>
                  LET validated == FormsOf(result.value.components)
                  IN  \A i \in DOMAIN raw : \A j \in DOMAIN raw[i].fields :
                         LET field == raw[i].fields[j]
                             default == validated[i].fields[j].default
                         IN  /\ default = FieldDefault(field).value
                             /\ CASE field.kind \in { "text", "select" } ->
                                        default \in { "", "x", "y", "z" }
                                  [] field.kind = "number" -> default \in Int
                                  [] field.kind = "checkbox" -> default \in BOOLEAN

\* An accepted form with a select whose numeric default gave way to the
\* first option and a checkbox that kept its boolean default.
TypedDefaultsWitness ==
    /\ Validated_ok
    /\ \E form \in { FormsOf(schema.components)[1] } :
          /\ Len(form.fields) = 2
          /\ form.fields[1].kind = "select"
          /\ form.fields[1].default = JsonNumber(7)
          /\ form.fields[1].options # << >>
          /\ form.fields[2].kind = "checkbox"
          /\ form.fields[2].default = JsonBool(TRUE)
    /\ LET form == FormsOf(Unwrap(validation).value.components)[1]
       IN  form.fields[1].default = "y" /\ form.fields[2].default = TRUE


\* C24: once a document is loaded, form_state has exactly the keys
\* "formId:fieldId" of the fields of the forms of the document, at any
\* depth, and holds under the key of every field the validated default of
\* that field.
FormStateSeeded ==
    TheRuntime.validated_schema # None =>
        LET forms == FormsOf(schema.components)
        IN  /\ DOMAIN TheRuntime.form_state
                  = UNION { { forms[i].id \o ":" \o forms[i].fields[j].id :
                                j \in DOMAIN forms[i].fields } :
                            i \in DOMAIN forms }
            /\ \A i \in DOMAIN forms : \A j \in DOMAIN forms[i].fields :
                  LET key == forms[i].id \o ":" \o forms[i].fields[j].id
                  IN  /\ key \in DOMAIN TheRuntime.form_state
                      /\ TheRuntime.form_state[key] = FieldDefault(forms[i].fields[j])


(***************************************************************************)
(* Specification ClickSpec: focus and minimize clicks on a restored        *)
(* workspace, on the blocks it holds and on ids it does not hold, each     *)
(* click later than the one before and than the restore.                   *)
(***************************************************************************)
ClickTimes == { 888, 999 }
Later == { t \in ClickTimes : t > clock }

FocusLater ==
    \E block_id \in TargetBlockIds : \E now \in Later :
        /\ focus_block(block_id, "user", now)
        /\ UNCHANGED allocated_ids

MinimizeLater ==
    \E block_id \in TargetBlockIds : \E now \in Later :
        /\ toggle_minimize_block(block_id, "user", now)
        /\ UNCHANGED allocated_ids

ClickNext == FocusLater \/ MinimizeLater

ClickSpec == WorkspaceInit /\ [][ClickNext]_vars

\* The positions of the blocks with an id.
Holding(block_id) ==
    { k \in DOMAIN canvas_blocks : canvas_blocks[k].state.block_id = block_id }

\* C25: focusing a block the canvas holds makes it the active block and
\* sets its last-touched time; the block list is otherwise the same (the
\* blocks, their order, their schema, template_id, minimized flag, and the
\* last-touched time of the other blocks); focusing an id no block has
\* fails and leaves the active id and the blocks alone.
FocusEffect ==
    [][\A block_id \in TargetBlockIds : \A now \in Later :
          focus_block(block_id, "user", now) =>
             IF Holding(block_id) # { }
             THEN /\ \E k \in Holding(block_id) :
                        canvas_blocks' =
                            [canvas_blocks EXCEPT ![k].last_touched_at = now]
                  /\ active_block_id' = Some(block_id)
                  /\ Recorded(canvas_event_log', "focus", "succeeded")
             ELSE /\ canvas_blocks' = canvas_blocks
                  /\ active_block_id' = active_block_id
                  /\ Recorded(canvas_event_log', "focus", "failed")]_vars

\* A focus that made the second of three blocks active and touched it
\* alone; the minimized third block stays minimized.
FocusEffectWitness ==
    /\ Recorded(canvas_event_log, "focus", "succeeded")
    /\ Len(canvas_blocks) = 3
    /\ active_block_id = Some(canvas_blocks[2].state.block_id)
    /\ canvas_blocks[2].last_touched_at = clock
    /\ canvas_blocks[1].last_touched_at < clock
    /\ canvas_blocks[3].last_touched_at < clock
    /\ canvas_blocks[3].state.minimized
    /\ Unwrap(current_session).canvas_workspace.active_block_id = active_block_id

\* C26: toggling a block the canvas holds flips its minimized flag and
\* sets its last-touched time; the active id and the block list are
\* otherwise the same, and a second toggle of the block gives the flag it
\* had; toggling an id no block has fails and changes neither the blocks
\* nor the active id.
MinimizeEffect ==
    [][\A block_id \in TargetBlockIds : \A now \in Later :
          toggle_minimize_block(block_id, "user", now) =>
             /\ active_block_id' = active_block_id
             /\ IF Holding(block_id) # { }
                THEN /\ \E k \in Holding(block_id) :
                           /\ canvas_blocks' =
                                 [canvas_blocks EXCEPT
                                    ![k].state.minimized = ~canvas_blocks[k].state.minimized,
                                    ![k].last_touched_at = now]
                           /\ \A again \in ClickTimes :
                                 LET twice == apply_toggle_minimize_transition(
                                                  canvas_blocks', block_id, again)
                                 IN  /\ twice.result = Some(canvas_blocks[k].state.minimized)
                                     /\ twice.blocks =
                                           [canvas_blocks EXCEPT ![k].last_touched_at = again]
                     /\ Recorded(canvas_event_log', "minimize", "succeeded")
                ELSE /\ canvas_blocks' = canvas_blocks
                     /\ Recorded(canvas_event_log', "minimize", "failed")]_vars

\* A second toggle of a block that was minimized when restored: it is
\* minimized again, the only block touched, and not the active one.
MinimizeEffectWitness ==
    /\ Recorded(canvas_event_log, "minimize", "succeeded")
    /\ Last(canvas_event_log).message = Some("minimized")
    /\ clock = 999
    /\ Len(canvas_blocks) = 2
    /\ canvas_blocks[2].state.block_id = "block-11"
    /\ canvas_blocks[2].last_touched_at = 999
    /\ canvas_blocks[2].state.minimized
    /\ canvas_blocks[1].last_touched_at = 777
    /\ ~canvas_blocks[1].state.minimized
    /\ active_block_id = Some(canvas_blocks[1].state.block_id)


(***************************************************************************)
(* Specification ReloadSpec: the CatalogManager of with_default_providers, *)
(* a user directory before the builtin provider, reloaded over the         *)
(* directory as it is found at each reload, one file written or removed    *)
(* since the reload before, and then asked to resolve intents.  The files  *)
(* of the directory are held in the order of their names.                  *)
(***************************************************************************)
MaxDirectoryFiles == 2   \* files of the user catalog directory

\* A document that has to be trimmed and deduplicated.
UntrimmedDocument ==
    [meta |-> [id |-> " t2 ", title |-> "Title", version |-> "1.0.0",
               tags |-> { " review ", "review" }],
     match_rules |-> [primary |-> "review ", operations |-> { " ", "review " },
                      tags |-> { }],
     schema |-> UiSchema(<< >>, << Markdown("m", << >>) >>)]

\* Documents that parse and do not validate: a blank id, an empty version,
\* a schema with a component of an unknown kind.
BlankIdDocument ==
    [TemplateDocument(" ", "review", { }, { }) EXCEPT !.meta.title = "Title"]
NoVersionDocument ==
    [TemplateDocument("t1", "review", { }, { }) EXCEPT !.meta.version = ""]
BadSchemaDocument ==
    [TemplateDocument("t1", "review", { }, { }) EXCEPT
        !.schema = UiSchema(<< >>, << RawComponent("widget", "x", None, None,
                                                    << >>, << >>) >>)]

\* What a file of the directory holds.
FileContents ==
    { TemplateDocument("t1", "review", { }, { }), UntrimmedDocument,
      BlankIdDocument, NoVersionDocument, BadSchemaDocument,
      Unparsable, Unreadable }

Directories ==
    UNION { [1..n -> FileContents] : n \in 0..MaxDirectoryFiles }

\* The templates embedded in the builtin provider.
EmbeddedTemplates ==
    << TemplateDocument("t1", "review", { }, { }),
       TemplateDocument("t2", "plan", Operations, { }) >>

DefaultProviders(directory) ==
    << [source |-> Sources[2], documents |-> directory],
       [source |-> Sources[3], documents |-> EmbeddedTemplates] >>

\* CatalogManager::new.
ReloadInit ==
    /\ \E directory \in Directories :
          /\ providers = DefaultProviders(directory)
          /\ Holds(reload(providers))
    /\ org_enabled = FALSE
    /\ resolution = None
    /\ mutation = None
    /\ SchemaIdle
    /\ TurnIdle
    /\ CanvasIdle

\* The directory after a file is written or removed, or as it was.
OneFileApart(old, new) ==
    \/ /\ Len(new) = Len(old)
       /\ Cardinality({ i \in DOMAIN old : old[i] # new[i] }) <= 1
    \/ /\ Len(new) = Len(old) + 1
       /\ SubSeq(new, 1, Len(old)) = old
    \/ /\ Len(new) = Len(old) - 1
       /\ SubSeq(old, 1, Len(new)) = new

\* CatalogManager::reload over the directory as it is now.
Reload ==
    \E directory \in Directories :
        /\ resolution = None
        /\ OneFileApart(providers[1].documents, directory)
        /\ providers' = DefaultProviders(directory)
        /\ ComesToHold(reload(providers'))
        /\ UNCHANGED << org_enabled, resolution, mutation, schemaVars, turnVars, canvasVars >>

ReloadNext == Reload \/ Resolve

ReloadSpec == ReloadInit /\ [][ReloadNext]_vars


\* A file holds a document that parses and validates.
ValidDocument(raw) ==
    /\ "meta" \in DOMAIN raw
    /\ trim(raw.meta.id) # ""
    /\ trim(raw.meta.title) # ""
    /\ trim(raw.meta.version) # ""
    /\ trim(raw.match_rules.primary) # ""
    /\ validate_schema(raw.schema).ok

\* C27: whatever the files of the user directory, load_templates of the
\* user provider succeeds, returns the documents that parse and validate,
\* in the order of the files, and one diagnostic for each other file.
LoadNeverFails ==
    LET provider == providers[1]
        documents == provider.documents
        loaded == load_templates(provider)
        valid == SelectSeq(documents, ValidDocument)
    IN  /\ loaded.ok
        /\ Len(loaded.value.templates) = Len(valid)
        /\ \A k \in DOMAIN valid :
              /\ loaded.value.templates[k].document = normalize_document(valid[k])
              /\ loaded.value.templates[k].source = provider.source
        /\ Len(loaded.value.diagnostics) = Len(documents) - Len(valid)
        /\ \A i \in DOMAIN documents :
              ~ValidDocument(documents[i]) =>
                 Cardinality({ d \in DOMAIN loaded.value.diagnostics :
                                 /\ loaded.value.diagnostics[d].template_ref = [file |-> i]
                                 /\ loaded.value.diagnostics[d].provider_id
                                       = provider.source.provider_id }) = 1

\* The templates of the index that a provider gave.
IndexOf(index, provider_id) ==
    SelectSeq(index, LAMBDA t : t.source.provider_id = provider_id)

\* The diagnostics recorded for a provider.
DiagnosticsOf(diagnostics, provider_id) ==
    SelectSeq(diagnostics, LAMBDA d : d.provider_id = provider_id)

\* Index and diagnostics are what the providers give now and nothing else:
\* of a provider whose load succeeds all its templates and its diagnostics,
\* of a provider whose load fails no template and one diagnostic that
\* names it.
RebuiltFrom(provider_list, index, diagnostics) ==
    /\ \A t \in DOMAIN index :
          \E p \in DOMAIN provider_list : index[t].source = provider_list[p].source
    /\ \A d \in DOMAIN diagnostics :
          \E p \in DOMAIN provider_list :
             diagnostics[d].provider_id = provider_list[p].source.provider_id
    /\ \A p \in DOMAIN provider_list :
          LET loaded == load_templates(provider_list[p])
              provider_id == provider_list[p].source.provider_id
              given == IndexOf(index, provider_id)
              recorded == DiagnosticsOf(diagnostics, provider_id)
          IN  IF loaded.ok
              THEN /\ Len(given) = Len(loaded.value.templates)
                   /\ \A template \in { loaded.value.templates[i] :
                                           i \in DOMAIN loaded.value.templates } :
                         Cardinality({ i \in DOMAIN given : given[i] = template })
                           = Cardinality({ i \in DOMAIN loaded.value.templates :
                                             loaded.value.templates[i] = template })
                   /\ recorded = loaded.value.diagnostics
              ELSE /\ given = << >>
                   /\ Len(recorded) = 1
                   /\ recorded[1].template_ref = "provider"

\* C28: a reload completes when the load of a provider fails: the index has
\* all templates of every other provider and the diagnostics name the
\* provider that failed; index and diagnostics hold nothing of the reload
\* before.
ReloadIsolatesFailure ==
    [][(providers' # providers \/ templates' # templates
          \/ load_diagnostics' # load_diagnostics)
         => RebuiltFrom(providers', templates', load_diagnostics')]_vars

\* A reload over a directory with a file that cannot be read: the index
\* holds the two builtin templates and the one diagnostic names user-local.
ReloadIsolatesFailureWitness ==
    /\ ~load_templates(providers[1]).ok
    /\ Len(providers[1].documents) = 2
    /\ ValidDocument(providers[1].documents[1])
    /\ Len(templates) = 2
    /\ \A t \in DOMAIN templates : templates[t].source.provider_id = "builtin-default"
    /\ Len(load_diagnostics) = 1
    /\ load_diagnostics[1].provider_id = "user-local"
    /\ load_diagnostics[1].template_ref = "provider"

\* C29: no two templates of the index have the same provider id and
\* template id, and a resolution that selects a template marks one trace
\* candidate as selected.
IndexKeysUnique ==
    /\ \A i, j \in DOMAIN templates :
          (/\ templates[i].source.provider_id = templates[j].source.provider_id
           /\ template_id(templates[i]) = template_id(templates[j])) => i = j
    /\ (resolution # None /\ Unwrap(resolution).selected # None) =>
          Cardinality({ c \in DOMAIN Unwrap(resolution).trace.ranked_candidates :
                          Unwrap(resolution).trace.ranked_candidates[c].selected }) = 1

\* The terms of a list are trimmed and none is empty.
Normalized(terms) == \A t \in terms : t # "" /\ t \notin { " ", " review ", "review ", " t2 " }

ReadOnlyProvider(provider_id) ==
    [type |-> "ReadOnlyProvider", provider_id |-> provider_id]

\* str::chars on the template ids and intents of the model.
chars(raw) ==
    CASE raw = "t1"   -> << "t", "1" >>
      [] raw = "plan" -> << "p", "l", "a", "n" >>
      [] raw = "a/b"  -> << "a", "/", "b" >>
      [] raw = "a_b"  -> << "a", "_", "b" >>
      [] raw = "/"    -> << "/" >>

\* char::is_ascii_alphanumeric on the characters of those strings.
is_ascii_alphanumeric(ch) == ch \in { "a", "b", "l", "n", "p", "t", "1" }

RECURSIVE collect_string(_)
collect_string(characters) ==
    IF characters = << >> THEN ""
    ELSE Head(characters) \o collect_string(Tail(characters))

\* The loop of sanitize_filename.
sanitized(characters) ==
    [i \in DOMAIN characters |->
        IF is_ascii_alphanumeric(characters[i]) \/ characters[i] \in { "_", "-", "." }
        THEN characters[i] ELSE "_"]

\* sanitize_filename.
sanitize_filename(raw) ==
    IF \A i \in DOMAIN sanitized(chars(raw)) : sanitized(chars(raw))[i] = "_"
    THEN "template"
    ELSE collect_string(sanitized(chars(raw)))

\* UserCatalogProvider::template_path_for_id: the file name under root_dir.
template_path_for_id(id) == sanitize_filename(id) \o ".json"

\* Vec<PathBuf>::sort on the paths of the model.
PathOrder == << "a_b.json", "t1.json", "template.json" >>
path_index(path) == CHOOSE i \in DOMAIN PathOrder : PathOrder[i] = path

\* A user provider over a directory: names holds the file names in the
\* order load_templates reads them, documents what each file holds.
\* fs::write: the file is created or replaced.
write(provider, path, raw) ==
    IF \E i \in DOMAIN provider.names : provider.names[i] = path
    THEN [provider EXCEPT
            !.documents = [i \in DOMAIN provider.names |->
                             IF provider.names[i] = path THEN raw
                             ELSE provider.documents[i]]]
    ELSE [provider EXCEPT
            !.names = SelectSeq(provider.names,
                                LAMBDA n : path_index(n) < path_index(path))
                      \o << path >> \o
                      SelectSeq(provider.names,
                                LAMBDA n : path_index(n) > path_index(path)),
            !.documents =
                SubSeq(provider.documents, 1,
                       Cardinality({ i \in DOMAIN provider.names :
                                       path_index(provider.names[i]) < path_index(path) }))
                \o << raw >> \o
                SubSeq(provider.documents,
                       Cardinality({ i \in DOMAIN provider.names :
                                       path_index(provider.names[i]) < path_index(path) }) + 1,
                       Len(provider.documents))]

\* fs::remove_file of a file that exists.
remove_file(provider, path) ==
    [provider EXCEPT
        !.names = SelectSeq(provider.names, LAMBDA n : n # path),
        !.documents =
            [i \in 1..(Len(provider.documents) - 1) |->
                IF i < Unwrap(position(provider.names, path))
                THEN provider.documents[i] ELSE provider.documents[i + 1]]]

\* serde_json::to_string_pretty of a TemplateDocument: every member is
\* written, and match_rules under the name from_str reads it by; a file
\* holds the text as the members from_str finds in it.
to_string_pretty(template) ==
    [meta |-> template.meta, match_rules |-> template.match_rules,
     schema |-> template.schema]

\* An upsert_template that answers Ok and does nothing.
upsert_template_silently(provider, template, denied) ==
    [result |-> Ok(<< >>), provider |-> provider]
\* CatalogProvider::upsert_template: the trait's default for a provider
\* that does not override it, UserCatalogProvider's for a user provider.
\* denied: the file system refuses the write.
upsert_template(provider, template, denied) ==
    IF provider.source.kind # "user"
    THEN [result |-> Err(ReadOnlyProvider(provider.source.provider_id)),
          provider |-> provider]
    ELSE IF denied
    THEN [result |-> Err(Io(provider.source.provider_id,
                            template_path_for_id(template.meta.id),
                            "Permission denied")),
          provider |-> provider]
    ELSE [result |-> Ok(<< >>),
          provider |-> write(provider, template_path_for_id(template.meta.id),
                             to_string_pretty(template))]

\* CatalogProvider::delete_template.
delete_template(provider, id, denied) ==
    IF provider.source.kind # "user"
    THEN [result |-> Err(ReadOnlyProvider(provider.source.provider_id)),
          provider |-> provider]
    ELSE IF position(provider.names, template_path_for_id(id)) = None
    THEN [result |-> Ok(<< >>), provider |-> provider]
    ELSE IF denied
    THEN [result |-> Err(Io(provider.source.provider_id,
                            template_path_for_id(id),
                            "Permission denied")),
          provider |-> provider]
    ELSE [result |-> Ok(<< >>),
          provider |-> remove_file(provider, template_path_for_id(id))]


\* StoreSpec: a user provider over a directory that does not exist yet and
\* the builtin provider, and the calls of upsert_template and
\* delete_template on them.
StoreIds == { "t1", "a/b", "a_b", "/" }
StoreVersions == { "1.0.0", "2.0.0" }

StoreDocument(id, version) ==
    [meta |-> [id |-> id, title |-> "Title", version |-> version, tags |-> { }],
     match_rules |-> [primary |-> "review", operations |-> { }, tags |-> { }],
     schema |-> UiSchema(<< >>, << Markdown("m", << >>) >>)]

StoreInit ==
    /\ providers = << [source |-> Sources[2], documents |-> << >>, names |-> << >>],
                      [source |-> Sources[3], documents |-> EmbeddedTemplates] >>
    /\ templates = << >>
    /\ load_diagnostics = << >>
    /\ org_enabled = FALSE
    /\ resolution = None
    /\ mutation = None
    /\ SchemaIdle
    /\ TurnIdle
    /\ CanvasIdle

\* The call and what it returned: the provider called, the template id
\* and, of an upsert_template, the document handed over.
Mutation(operation, provider_index, id, template, result) ==
    [operation |-> operation, provider_index |-> provider_index, id |-> id,
     template |-> template, result |-> result]

Upsert ==
    \E k \in DOMAIN providers : \E id \in StoreIds : \E version \in StoreVersions :
    \E denied \in BOOLEAN :
        /\ providers' =
             [providers EXCEPT
                ![k] = upsert_template(providers[k], StoreDocument(id, version),
                                       denied).provider]
        /\ mutation' =
             Some(Mutation("upsert_template", k, id,
                           Some(StoreDocument(id, version)),
                           upsert_template(providers[k], StoreDocument(id, version),
                                           denied).result))
        /\ UNCHANGED << templates, load_diagnostics, org_enabled, resolution,
                        schemaVars, turnVars, canvasVars >>

Delete ==
    \E k \in DOMAIN providers : \E id \in StoreIds : \E denied \in BOOLEAN :
        /\ providers' =
             [providers EXCEPT ![k] = delete_template(providers[k], id, denied).provider]
        /\ mutation' =
             Some(Mutation("delete_template", k, id, None,
                           delete_template(providers[k], id, denied).result))
        /\ UNCHANGED << templates, load_diagnostics, org_enabled, resolution,
                        schemaVars, turnVars, canvasVars >>

StoreNext == Upsert \/ Delete

StoreSpec == StoreInit /\ [][StoreNext]_vars

\* C31: a call of upsert_template or delete_template on a read-only provider
\* returns the ReadOnlyProvider error naming that provider, and the
\* provider loads the same templates after it as before.
ReadOnlyRejects ==
    [][\A k \in DOMAIN providers :
          (/\ IsSome(mutation')
           /\ Unwrap(mutation').provider_index = k
           /\ providers[k].source.read_only)
          => /\ Unwrap(mutation').result =
                  Err(ReadOnlyProvider(providers[k].source.provider_id))
             /\ load_templates(providers'[k]) = load_templates(providers[k])
             /\ providers'[k] = providers[k]]_vars

\* The builtin provider has answered an upsert_template with its error and
\* still loads its two templates.
ReadOnlyRejectsWitness ==
    /\ IsSome(mutation)
    /\ Unwrap(mutation).operation = "upsert_template"
    /\ Unwrap(mutation).provider_index = 2
    /\ ~Unwrap(mutation).result.ok
    /\ Unwrap(mutation).result.error = ReadOnlyProvider("builtin-default")
    /\ Len(load_templates(providers[2]).value.templates) = 2


\* The templates load_templates returns for a provider, as a set.
Stored(provider) ==
    { load_templates(provider).value.templates[i] :
        i \in DOMAIN load_templates(provider).value.templates }

\* C32: the user provider is a store keyed by template id.  After an
\* upsert_template that returned Ok the provider loads a template with the
\* id and content of the document, and every template it loaded before
\* under another id; after a delete_template that returned Ok it loads no
\* template with that id and every template it loaded before under another
\* id, and nothing changes when it loaded none with that id.
StoreKeyedById ==
    [][(/\ IsSome(mutation')
        /\ Unwrap(mutation').provider_index = 1
        /\ Unwrap(mutation').result.ok)
       => /\ \A old \in Stored(providers[1]) :
                template_id(old) # Unwrap(mutation').id
                => old \in Stored(providers'[1])
          /\ Unwrap(mutation').operation = "upsert_template"
             => \E new \in Stored(providers'[1]) :
                   new.document = Unwrap(Unwrap(mutation').template)
          /\ Unwrap(mutation').operation = "delete_template"
             => /\ \A new \in Stored(providers'[1]) :
                      template_id(new) # Unwrap(mutation').id
                /\ (\A old \in Stored(providers[1]) :
                       template_id(old) # Unwrap(mutation').id)
                   => providers'[1] = providers[1]]_vars


(***************************************************************************)
(* Specification EditSpec: one session from its creation, under render     *)
(* requests, frames in which the user clicks a button or commits a form    *)
(* field, and the reopening of the session from the store.                 *)
(***************************************************************************)
\* UiRuntime::form_state_snapshot.
form_state_snapshot(runtime) == runtime.form_state

\* The block in which the user commits `input` in the field `f` of
\* form_fields, after the frame (app.rs 1456-1468).
commit_block(block, f, input) ==
    [block EXCEPT
        !.ui_runtime =
            render_form_field(
                @,
                form_fields(Unwrap(block.ui_runtime.validated_schema).components)[f].form_id,
                form_fields(Unwrap(block.ui_runtime.validated_schema).components)[f].field,
                Some(input)),
        !.synced_event_count =
            IF @ < Len(block.ui_runtime.event_log) + 1
            THEN Len(block.ui_runtime.event_log) + 1 ELSE @]

\* The events that frame takes from the runtime of that block.
commit_events(block, f, input) ==
    SubSeq(commit_block(block, f, input).ui_runtime.event_log,
           block.synced_event_count + 1,
           Len(commit_block(block, f, input).ui_runtime.event_log))

\* The canvas part of BrownieApp::render_right_panel, one frame in which
\* the user commits a value in a field of the block at `index`.
render_right_panel_commit(index, f, input) ==
    /\ canvas_blocks' =
          [i \in DOMAIN canvas_blocks |->
              IF i = index THEN commit_block(canvas_blocks[i], f, input)
              ELSE frame_block(canvas_blocks[i], None)]
    /\ canvas_event_log' =
          Concat([i \in DOMAIN canvas_blocks |->
                     IF i = index THEN commit_events(canvas_blocks[i], f, input)
                     ELSE frame_events(canvas_blocks[i], None)])
    /\ persist_current_session(canvas_blocks', active_block_id)
    /\ UNCHANGED << active_block_id, block_nonce, selected_template,
                    active_intent, clock, target_resolution, schemaVars, turnVars,
                    catalogVars >>

\* The fields a frame can commit in: those of the rendered blocks, while
\* the runtimes have room for another event.
Commits ==
    UNION { { [index |-> i, field |-> f, input |-> input] :
                f \in DOMAIN form_fields(
                         Unwrap(canvas_blocks[i].ui_runtime.validated_schema).components),
                input \in { [kind |-> "text", value |-> "reject"] } } :
            i \in { j \in DOMAIN canvas_blocks :
                      /\ ~canvas_blocks[j].state.minimized
                      /\ canvas_blocks[j].ui_runtime.runtime_error = None
                      /\ canvas_blocks[j].ui_runtime.validated_schema # None
                      /\ runtime_events(canvas_blocks) < MaxRuntimeEvents } }

CommitFrame ==
    \E commit \in Commits :
        /\ render_right_panel_commit(commit.index, commit.field, commit.input)
        /\ UNCHANGED allocated_ids

\* A render request that names no target block.
EditRequest ==
    \E request \in { r \in RenderRequests : r.target_block_id = None } :
    \E now \in Now :
        /\ update_target(canvas_blocks, active_block_id, request, "assistant").type
             = "OpenNew" => block_nonce < MaxNonce
        /\ apply_canvas_block_from_schema(request, "assistant", now)
        /\ HandedOut

EditNext ==
    \/ EditRequest
    \/ Frame
    \/ CommitFrame
    \/ Reopen

EditSpec == SessionInit /\ [][EditNext]_vars


NewlyRecorded ==
    Concat([i \in DOMAIN canvas_blocks |->
               SubSeq(canvas_blocks'[i].ui_runtime.event_log,
                      Len(canvas_blocks[i].ui_runtime.event_log) + 1,
                      Len(canvas_blocks'[i].ui_runtime.event_log))])

\* C34: every ButtonClicked or FormFieldCommitted event a runtime records
\* is appended to the canvas event log exactly once: a frame appends the
\* events the runtimes record in it, and no event recorded before it.
EventsReachLogOnce ==
    [][((Frame \/ CommitFrame)
        /\ (canvas_event_log' # canvas_event_log \/ NewlyRecorded # << >>))
       => canvas_event_log' = NewlyRecorded]_vars


\* C35: a failed Update leaves the target block unchanged.  When a render
\* request reaches an existing block and its schema fails to deserialize or
\* to validate, the runtime of the block still holds the schema and the
\* form state it held, without an error; the state of the block and
\* active_block_id are unchanged.
FailedUpdateKeepsBlock ==
    [][(/\ EditRequest
        /\ RequestedThenOutcome(canvas_event_log')
        /\ Recorded(canvas_event_log', "update", "failed"))
       => /\ Len(canvas_blocks') = Len(canvas_blocks)
          /\ active_block_id' = active_block_id
          /\ \A k \in DOMAIN canvas_blocks :
                canvas_blocks[k].state.block_id
                   = Unwrap(Last(canvas_event_log').block_id)
                => /\ canvas_blocks'[k].state = canvas_blocks[k].state
                   /\ canvas_blocks'[k].ui_runtime.validated_schema
                         = canvas_blocks[k].ui_runtime.validated_schema
                   /\ canvas_blocks'[k].ui_runtime.form_state
                         = canvas_blocks[k].ui_runtime.form_state
                   /\ canvas_blocks'[k].ui_runtime.runtime_error
                         = canvas_blocks[k].ui_runtime.runtime_error]_vars


\* C36: after every successful Open or Update the target block has the
\* template_id of the render request that supplied its schema, also when
\* the request names the id of a block opened for another template.
TemplateIdFollowsSchema ==
    [][\A payload \in RenderPayloads : \A action \in { "open", "update" } :
          (/\ RenderRequest
           /\ Requested(canvas_event_log', action, payload.template_id)
           /\ Recorded(canvas_event_log', action, "succeeded"))
          => \A k \in DOMAIN canvas_blocks' :
                canvas_blocks'[k].state.block_id
                   = Unwrap(Last(canvas_event_log').block_id)
                => canvas_blocks'[k].state.template_id = payload.template_id]_vars


(***************************************************************************)
(* Specification LifecycleSpec: one session from its creation, under       *)
(* render requests, focus, minimize and close clicks and the reopening of  *)
(* the session from the store.                                             *)
(***************************************************************************)
LifecycleNext ==
    \/ RenderRequest
    \/ Focus
    \/ ToggleMinimize
    \/ Close
    \/ Reopen

LifecycleSpec == SessionInit /\ [][LifecycleNext]_vars

\* The open blocks that carry a template id.
BlocksOfTemplate(template) ==
    { i \in DOMAIN canvas_blocks : canvas_blocks[i].state.template_id = template }

\* C37: in every state reached from the empty canvas of a new session by
\* render requests (explicit targets included), focus, minimize, close and
\* the reopening of the persisted session, no two open blocks carry the
\* same template_id, so that resolve_block_target_for_template returns
\* Ambiguous for no template.
OneBlockPerTemplate ==
    \A template \in TemplateIds :
        /\ Cardinality(BlocksOfTemplate(template)) <= 1
        /\ resolve_block_target_for_template(canvas_blocks, active_block_id,
                                             template).type # "Ambiguous"

\* Two blocks are open, one per template, and the one that is not active
\* carries the template of a request that would resolve to it.
OneBlockPerTemplateWitness ==
    /\ Len(canvas_blocks) = 2
    /\ BlocksOfTemplate("t1") # { }
    /\ BlocksOfTemplate("t2") # { }
    /\ \E template \in TemplateIds :
          /\ resolve_block_target_for_template(canvas_blocks, active_block_id,
                                               template).type = "Existing"
          /\ Some(canvas_blocks[resolve_block_target_for_template(
                     canvas_blocks, active_block_id, template).index].state.block_id)
               # active_block_id

\* C38: active_block_id is None exactly when no block is open, and names a
\* block of canvas_blocks otherwise, after every open, update, focus,
\* minimize, close and reopening, the failed ones included.
ActiveBlockValid ==
    /\ active_block_id = None <=> canvas_blocks = << >>
    /\ active_block_id # None
         => \E i \in DOMAIN canvas_blocks :
               canvas_blocks[i].state.block_id = Unwrap(active_block_id)

\* The active block was closed while another block stayed open, and the
\* active id names the block that stayed.
ActiveBlockValidWitness ==
    /\ Len(canvas_blocks) = 1
    /\ active_block_id = Some(canvas_blocks[1].state.block_id)
    /\ Recorded(canvas_event_log, "close", "succeeded")


(***************************************************************************)
(* The assistant turn: the tool handler and the event listener send        *)
(* AppEvents on the channel, BrownieApp::apply_event receives them.        *)
(***************************************************************************)
\* AppEvent (event.rs): the variants of a turn.
StreamDelta(text) == [type |-> "StreamDelta", text |-> text, request |-> None]
StreamEnd == [type |-> "StreamEnd", text |-> "", request |-> None]
SdkError(message) == [type |-> "SdkError", text |-> message, request |-> None]
CanvasToolRender(request) ==
    [type |-> "CanvasToolRender", text |-> "", request |-> Some(request)]

\* The fields of BrownieApp that a render request reads and writes; the
\* event log holds what the handler has pushed so far.
App(log) ==
    [canvas_blocks |-> canvas_blocks, active_block_id |-> active_block_id,
     block_nonce |-> block_nonce, canvas_event_log |-> log,
     selected_template |-> selected_template, active_intent |-> active_intent,
     current_session |-> current_session, clock |-> clock]

\* emit_canvas_lifecycle.
emit_canvas_lifecycle(app, event) ==
    [app EXCEPT !.canvas_event_log = Append(@, event)]

\* sync_active_selection_context on the app a handler is working on.
synced_selection(app, index) ==
    IF index = None THEN [app EXCEPT !.selected_template = None]
    ELSE [app EXCEPT
            !.selected_template =
                Some(TemplateSelectionContext(app.canvas_blocks[Unwrap(index)].state)),
            !.active_intent = Some(app.canvas_blocks[Unwrap(index)].state.intent)]

\* persist_current_session on the app a handler is working on.
persisted(app) ==
    [app EXCEPT !.current_session =
        IF @ = None THEN None
        ELSE Some([canvas_workspace |->
                     snapshot_canvas_workspace(app.canvas_blocks,
                                               app.active_block_id)])]

\* The Update branch of apply_canvas_block_from_schema (app.rs 563-606).
updated_existing(app, block_id, index, request, now, loaded) ==
    IF ~loaded.result.ok
    THEN emit_canvas_lifecycle(
             emit_canvas_lifecycle(
                 [app EXCEPT !.canvas_blocks[index].ui_runtime = loaded.ui_runtime],
                 CanvasBlockLifecycle("update", "assistant", "requested",
                     Some(block_id), Some("template_id=" \o request.template_id))),
             CanvasBlockLifecycle("update", "assistant", "failed", Some(block_id),
                 Some(to_string(loaded.result.error))))
    ELSE emit_canvas_lifecycle(
             persisted(synced_selection(
                 emit_canvas_lifecycle(
                     [app EXCEPT
                        !.canvas_blocks[index] =
                            update_block(@, request, loaded.ui_runtime, now),
                        !.active_block_id = Some(block_id),
                        !.clock = now],
                     CanvasBlockLifecycle("update", "assistant", "requested",
                         Some(block_id),
                         Some("template_id=" \o request.template_id))),
                 Some(index))),
             CanvasBlockLifecycle("update", "assistant", "succeeded",
                 Some(block_id), None))

\* The Open branch (app.rs 608-655); `next` is what next_block_id returns.
opened_new(app, next, request, now, loaded) ==
    IF ~loaded.result.ok
    THEN emit_canvas_lifecycle(
             emit_canvas_lifecycle(app,
                 CanvasBlockLifecycle("open", "assistant", "requested", None,
                     Some("template_id=" \o request.template_id))),
             CanvasBlockLifecycle("open", "assistant", "failed", None,
                 Some(to_string(loaded.result.error))))
    ELSE emit_canvas_lifecycle(
             persisted(synced_selection(
                 emit_canvas_lifecycle(
                     [app EXCEPT
                        !.block_nonce = next.block_nonce,
                        !.canvas_blocks =
                            Append(@, new_block(next.block_id, request,
                                                loaded.ui_runtime, now)),
                        !.active_block_id = Some(next.block_id),
                        !.clock = now],
                     CanvasBlockLifecycle("open", "assistant", "requested", None,
                         Some("template_id=" \o request.template_id))),
                 Some(Len(app.canvas_blocks) + 1))),
             CanvasBlockLifecycle("open", "assistant", "succeeded",
                 Some(next.block_id),
                 Some("template_id=" \o request.template_id)))

\* apply_canvas_block_from_schema once the target is settled.
applied_to_target(app, target, request, now) ==
    CASE target.type = "Rejected" -> emit_canvas_lifecycle(app, target.event)
      [] target.type = "Existing" ->
            updated_existing(app, app.canvas_blocks[target.index].state.block_id,
                target.index, request, now,
                load_schema_value(app.canvas_blocks[target.index].ui_runtime,
                                  request.schema))
      [] target.type = "OpenNew" ->
            opened_new(app, next_block_id(app.block_nonce), request, now,
                       load_schema_value(NewRuntime, request.schema))

\* BrownieApp::apply_canvas_render_request as the app it leaves.  No
\* request is for builtin.file_listing.default, so that
\* materialize_template_schema returns the schema of the request.
apply_canvas_render_request(app, request, now) ==
    applied_to_target([app EXCEPT !.active_intent = Some(request.intent)],
        update_target(app.canvas_blocks, app.active_block_id, request, "assistant"),
        request, now)


\* A flush that applies the newest deferred request first.
RECURSIVE flush_pending_canvas_renders_newest_first(_, _, _)
flush_pending_canvas_renders_newest_first(app, pending, now) ==
    IF pending = << >> THEN app
    ELSE flush_pending_canvas_renders_newest_first(
             apply_canvas_render_request(app, pending[Len(pending)], now),
             SubSeq(pending, 1, Len(pending) - 1), now)

\* BrownieApp::flush_pending_canvas_renders on the requests mem::take took.
RECURSIVE flush_pending_canvas_renders(_, _, _)
flush_pending_canvas_renders(app, pending, now) ==
    IF pending = << >> THEN app
    ELSE flush_pending_canvas_renders(
             apply_canvas_render_request(app, Head(pending), now),
             Tail(pending), now)

\* The handler leaves the app: its fields become the variables.  A handler
\* that pushed no event leaves the entries of the last one.
Leaves(app) ==
    /\ canvas_blocks' = app.canvas_blocks
    /\ active_block_id' = app.active_block_id
    /\ block_nonce' = app.block_nonce
    /\ canvas_event_log' =
          IF app.canvas_event_log = << >> THEN canvas_event_log
          ELSE app.canvas_event_log
    /\ selected_template' = app.selected_template
    /\ active_intent' = app.active_intent
    /\ current_session' = app.current_session
    /\ clock' = app.clock

\* AppEvent::StreamEnd (app.rs 983-1004): the message in progress is taken
\* and the session persisted when there is one, then the flush.
stream_end(now) ==
    /\ in_progress_assistant' = ""
    /\ is_streaming' = FALSE
    /\ awaiting_assistant_turn' = FALSE
    /\ pending_canvas_renders' = << >>
    /\ \E app \in { flush_pending_canvas_renders(
                        IF in_progress_assistant # "" THEN persisted(App(<< >>))
                        ELSE App(<< >>),
                        pending_canvas_renders, now) } : Leaves(app)

\* AppEvent::SdkError (app.rs 1012-1017).
sdk_error(now) ==
    /\ is_streaming' = FALSE
    /\ awaiting_assistant_turn' = FALSE
    /\ pending_canvas_renders' = << >>
    /\ UNCHANGED in_progress_assistant
    /\ \E app \in { flush_pending_canvas_renders(App(<< >>),
                                                  pending_canvas_renders, now) } :
          Leaves(app)

\* AppEvent::CanvasToolRender (app.rs 1066-1094).
canvas_tool_render(request, now) ==
    /\ UNCHANGED << awaiting_assistant_turn, is_streaming, in_progress_assistant >>
    /\ IF awaiting_assistant_turn \/ is_streaming
       THEN /\ pending_canvas_renders' = Append(pending_canvas_renders, request)
            /\ UNCHANGED << canvas_blocks, active_block_id, block_nonce,
                            canvas_event_log, selected_template, active_intent,
                            current_session, clock >>
       ELSE /\ UNCHANGED pending_canvas_renders
            /\ \E app \in { apply_canvas_render_request(App(<< >>), request, now) } :
                  Leaves(app)

\* BrownieApp::apply_event on the events of a turn.
apply_event(event, now) ==
    CASE event.type = "StreamDelta" ->
            /\ in_progress_assistant' = in_progress_assistant \o event.text
            /\ is_streaming' = TRUE
            /\ UNCHANGED << awaiting_assistant_turn, pending_canvas_renders,
                            canvas_blocks, active_block_id, block_nonce,
                            canvas_event_log, selected_template, active_intent,
                            current_session, clock >>
      [] event.type = "StreamEnd" -> stream_end(now)
      [] event.type = "SdkError" -> sdk_error(now)
      [] event.type = "CanvasToolRender" ->
            canvas_tool_render(Unwrap(event.request), now)

\* BrownieApp::submit_prompt on a prompt that is not blank.
submit_prompt ==
    /\ persist_current_session(canvas_blocks, active_block_id)
    /\ awaiting_assistant_turn' = TRUE
    /\ UNCHANGED << canvas_blocks, active_block_id, block_nonce, canvas_event_log,
                    selected_template, active_intent, clock, target_resolution,
                    allocated_ids, pending_canvas_renders, is_streaming,
                    in_progress_assistant, schemaVars, catalogVars >>

\* char::to_ascii_lowercase.
to_ascii_lowercase(ch) == CASE ch = "P" -> "p" [] OTHER -> ch

\* sanitize_identifier (copilot/mod.rs 536-551); no intent of the model
\* reaches its 32 characters.
sanitize_identifier(raw) ==
    IF collect_string(
           SelectSeq([i \in DOMAIN chars(raw) |-> to_ascii_lowercase(chars(raw)[i])],
                     LAMBDA ch : is_ascii_alphanumeric(ch) \/ ch \in { "-", "_" }))
         = ""
    THEN "ui"
    ELSE collect_string(
             SelectSeq([i \in DOMAIN chars(raw) |-> to_ascii_lowercase(chars(raw)[i])],
                       LAMBDA ch : is_ascii_alphanumeric(ch) \/ ch \in { "-", "_" }))

\* provisional_template_id; `now` is the time in milliseconds.
provisional_template_id(intent, now) ==
    "provisional." \o sanitize_identifier(intent.primary) \o "." \o ToString(now)

\* str::replace('_', " ").
replace_underscores(raw) ==
    collect_string([i \in DOMAIN chars(raw) |->
                       IF chars(raw)[i] = "_" THEN " " ELSE chars(raw)[i]])

\* build_provisional_template as what the handler sends of it; no intent
\* of the model is file_listing.
build_provisional_template(query, intent, now) ==
    [template_id |-> provisional_template_id(intent, now), intent |-> intent,
     title |-> "Provisional " \o replace_underscores(intent.primary),
     provider_id |-> "runtime-provisional", provider_kind |-> "provisional",
     schema |-> SchemaValue(JsonNumber(1), << >>,
                    << RawComponent("markdown", "provisional_intro",
                           Some("### Provisional Canvas\\n" \o query), None,
                           << >>, << >>) >>)]

\* The closure of query_ui_catalog_handler: `intent` is what
\* intent_from_text made of the query, `selected` what the catalog resolved
\* for it.  The status of the result and the event sent on the channel.
query_ui_catalog_handler(args, intent, selected, now) ==
    IF args.query = None THEN [status |-> "error", sent |-> None]
    ELSE IF intent = None THEN [status |-> "text_only", sent |-> None]
    ELSE IF selected # None
    THEN [status |-> "rendered_catalog",
          sent |-> Some(CanvasToolRender(
                      CanvasRenderRequest(Unwrap(selected), args.target_block_id)))]
    ELSE IF ~args.allow_provisional THEN [status |-> "text_only", sent |-> None]
    ELSE [status |-> "rendered_provisional",
          sent |-> Some(CanvasToolRender(
                      CanvasRenderRequest(
                          build_provisional_template(Unwrap(args.query),
                                                     Unwrap(intent), now),
                          args.target_block_id)))]


\* spawn_event_listener: the AppEvents sent for an event of the session.
spawn_event_listener(data) ==
    CASE data.type = "AssistantMessageDelta" -> << StreamDelta(data.content) >>
      [] data.type = "AssistantMessage" -> << StreamDelta(data.content), StreamEnd >>
      [] data.type = "SessionIdle" -> << StreamEnd >>
      [] data.type = "SessionError" -> << SdkError(data.content) >>


(***************************************************************************)
(* Specification TurnSpec: one session from its creation, under prompts    *)
(* and the AppEvents that the query_ui_catalog tool and the listener of    *)
(* the assistant session send, received in the order the channel has them. *)
(***************************************************************************)
MaxStreamText == 1      \* characters of the assistant message in progress
MaxDeferred == 2        \* render requests deferred at a time

\* The arguments of a call: with or without query, and either without
\* target block or with one that no session has and no provisional template.
ToolArguments ==
    { [query |-> query, target_block_id |-> None, allow_provisional |-> allow] :
        query \in { None, Some("plan") }, allow \in BOOLEAN }
    \cup { [query |-> Some("plan"), target_block_id |-> Some(MissingBlockId),
            allow_provisional |-> FALSE] }

\* What intent_from_text and the catalog make of a query: no intent, the
\* review intent with the template selected for it, the plan intent
\* without template.
Resolved ==
    { [intent |-> None, selected |-> None] }
    \cup { [intent |-> Some(payload.intent), selected |-> Some(payload)] :
             payload \in { p \in RenderPayloads : p.schema = ReviewSchema } }
    \cup { [intent |-> Some(UiIntent("plan", { }, { })), selected |-> None] }

SessionEvents ==
    { [type |-> type, content |-> content] :
        type \in { "AssistantMessageDelta", "AssistantMessage" },
        content \in { "", "h" } }
    \cup { [type |-> "SessionIdle", content |-> ""],
           [type |-> "SessionError", content |-> "failed"] }

\* What the calls of the tool return, by the time of the call.
ReturnedAt ==
    [now \in CanvasTimes |->
        { query_ui_catalog_handler(pair[1], pair[2].intent, pair[2].selected, now) :
            pair \in ToolArguments \X Resolved }]

\* The events the tool handler sends at time `now`.
ToolEvents(now) ==
    { Unwrap(returned.sent) :
        returned \in { r \in ReturnedAt[now] : r.sent # None } }

\* The events the listener sends.
ListenerEvents ==
    UNION { { spawn_event_listener(data)[i] :
                i \in DOMAIN spawn_event_listener(data) } :
            data \in SessionEvents }

\* drain_events: try_recv returns the next event of the channel and
\* apply_event takes it.
received(event, now) ==
    /\ event.type = "StreamDelta"
         => Len(in_progress_assistant) + Len(event.text) <= MaxStreamText
    /\ (event.type = "CanvasToolRender"
           /\ (awaiting_assistant_turn \/ is_streaming))
         => Len(pending_canvas_renders) < MaxDeferred
    /\ apply_event(event, now)
    /\ HandedOut
    /\ UNCHANGED << target_resolution, schemaVars, catalogVars >>

\* An event of the tool handler arrives.
ReceiveRender ==
    \E now \in Now : \E event \in ToolEvents(now) : received(event, now)

\* An event of the listener arrives.
ReceiveStream ==
    \E now \in Now : \E event \in ListenerEvents : received(event, now)

SubmitPrompt ==
    /\ ~is_streaming
    /\ submit_prompt

TurnNext ==
    \/ SubmitPrompt
    \/ ReceiveRender
    \/ ReceiveStream

TurnSpec == SessionInit /\ [][TurnNext]_vars


\* A turn is in progress.
InTurn == awaiting_assistant_turn \/ is_streaming

\* The requests applied one after the other, the last one last.
RECURSIVE InOrder(_, _, _)
InOrder(app, requests, now) ==
    IF requests = << >> THEN app
    ELSE apply_canvas_render_request(
             InOrder(app, SubSeq(requests, 1, Len(requests) - 1), now),
             requests[Len(requests)], now)

\* The lifecycle events of a log that close a request.
Outcomes(log) == { k \in DOMAIN log : log[k].status # "requested" }

\* The step leaves the canvas of `app`, and its log when it has entries.
CanvasOf(app) ==
    /\ canvas_blocks' = app.canvas_blocks
    /\ active_block_id' = app.active_block_id
    /\ block_nonce' = app.block_nonce
    /\ selected_template' = app.selected_template
    /\ active_intent' = app.active_intent
    /\ app.canvas_event_log # << >> => canvas_event_log' = app.canvas_event_log

Shown(blocks, active, request) ==
    /\ active # None
    /\ \E i \in DOMAIN blocks :
          /\ blocks[i].state.block_id = Unwrap(active)
          /\ blocks[i].state.template_id = request.template_id
          /\ blocks[i].state.schema = request.schema

\* No entry of the log is a Failed lifecycle event.
NoFailure(log) == \A k \in DOMAIN log : log[k].status # "failed"

\* C40: when query_ui_catalog returns rendered_catalog or
\* rendered_provisional, the application of the request it sent, in the
\* step that receives it outside a turn or in the flush at the end of the
\* turn, pushes no Failed lifecycle event and leaves an open, active block
\* with the template and the schema of the request.
ReportedRenderHappens ==
    [][\A now \in Now :
          /\ \A returned \in { r \in ReturnedAt[now] :
                                r.status \in { "rendered_catalog",
                                               "rendered_provisional" } } :
                (~InTurn /\ received(Unwrap(returned.sent), now))
                => /\ NoFailure(canvas_event_log')
                   /\ Shown(canvas_blocks', active_block_id',
                            Unwrap(Unwrap(returned.sent).request))
          /\ \A event \in { e \in ListenerEvents : e.type \in { "StreamEnd", "SdkError" } } :
                (pending_canvas_renders # << >> /\ received(event, now))
                => /\ NoFailure(canvas_event_log')
                   /\ Shown(canvas_blocks', active_block_id',
                            pending_canvas_renders[Len(pending_canvas_renders)])]_vars

====
